---- MODULE Spec2Model ----
(***************************************************************************)
(* Tracker coordination core of libtorrent: the group-ordered TrackerList, *)
(* the per-tracker counters and timers of Tracker, the selection and       *)
(* dispatch policies of the list, and the DNS resolver with its cache, its *)
(* two strategies and the resolver hook of ConnectionManager.              *)
(*                                                                         *)
(* A list position is an index 1..Len(list); the iterator end() is the     *)
(* position Len(list) + 1.  Time is the coarse clock cachedTime in whole   *)
(* seconds.                                                                *)
(***************************************************************************)
EXTENDS Integers, Sequences, FiniteSets, TLC

VARIABLES
  list,              \* TrackerList: the vector of tracker handles, in order
  trk,               \* the Tracker objects: tracker id -> its fields
  cachedTime,        \* torrent::cachedTime, in seconds
  protocol_enabled,  \* ConnectionManager::protocol_enabled_get, per tracker type
  calls,             \* timestamps of the inc_request_counter() calls made so far
  last,              \* the latest call: what was called and what it did
  network_active,    \* ConnectionManager::network_active_get()
  m_custom_server,   \* DnsManager::Implementation::m_custom_server
  res_nsaddr,        \* _res.nsaddr_list[0], the nameserver of the custom strategy
  m_slot_resolver,   \* ConnectionManager::m_slot_resolver, the resolver hook
  m_cache,           \* Cache::m_values: key -> (address, error code)
  process,           \* "running", or how the process ended
  history,           \* per key, the live lookups and the first outcome delivered
                     \* since the cache was last cleared
  pending            \* the keys of the resolve calls whose main-thread lookup
                     \* is under way, the global lock released

tracker_vars == <<list, trk, cachedTime, protocol_enabled, calls>>

dns_vars ==
  <<network_active, m_custom_server, res_nsaddr, m_slot_resolver, m_cache,
    process, history, pending>>

vars == <<tracker_vars, last, dns_vars>>

----------------------------------------------------------------------------
(* Bounds of the model *)

NumTrackers == 3      \* tracker objects that exist
NumGroups == 2        \* groups 0 .. NumGroups-1 are used by insert
StartTime == 1000     \* the clock's value when the model starts
MaxFailed == 9        \* consecutive failures followed by the backoff runs
MaxRequests == 12    \* inc_request_counter() calls followed by the throttle runs
MaxElapsed == 4      \* seconds the clock advances in the throttle runs
MaxBurst == 2         \* request_counter up to which the dispatch runs send
MaxScrapes == 1       \* scrape results a tracker reports in the dispatch runs
MaxCount == 1         \* results of each kind a tracker reports in the list runs
MaxReceived == 2      \* failures a tracker reports in the result runs

TrackerIds == 1 .. NumTrackers
Groups == 0 .. (NumGroups - 1)
TrackerTypes == {"http", "udp", "dht"}
Events == {"NONE", "COMPLETED", "STARTED", "STOPPED", "SCRAPE"}

----------------------------------------------------------------------------
(* DNS resolver: the data *)

NumHosts == 2         \* host names that are resolved
NumAddrs == 2         \* addresses the lookups answer with
MaxCached == 2        \* cache entries up to which new keys are resolved
MaxAnswers == 2       \* records in the answer section of a DNS response

Hosts == 1 .. NumHosts
Addrs == 1 .. NumAddrs
Families == {"AF_INET", "AF_INET6"}
SockTypes == {"SOCK_STREAM", "SOCK_DGRAM"}

\* Cache::Key
Key(host, family, socktype) ==
  [m_host |-> host, m_family |-> family, m_socktype |-> socktype]

\* The keys resolved: those that differ from (1, AF_INET, SOCK_STREAM) in at
\* most one component.
Keys ==
  { Key(host, "AF_INET", "SOCK_STREAM") : host \in Hosts }
    \cup { Key(1, family, "SOCK_STREAM") : family \in Families }
    \cup { Key(1, "AF_INET", socktype) : socktype \in SockTypes }

\* A socket address; the port matters for the nameserver only.
SockAddr(family, addr, port) == [family |-> family, addr |-> addr, port |-> port]

\* A null pointer.
Null == SockAddr("null", 0, 0)

\* The nameserver _res holds after res_ninit: the system's, on port 53.
SystemNameserver == SockAddr("AF_INET", 0, 53)

\* Cache::Value
Value(sa, error_code) == [m_sa |-> sa, m_error_code |-> error_code]

\* The empty std::map: a map is a function on the keys it holds.
EmptyMap == [key \in {} |-> Value(Null, 0)]

\* DnsManager::DnsManager and ConnectionManager::ConnectionManager: no custom
\* server, an empty cache, the system resolver as the hook; _res holds the
\* system's nameserver until server_set replaces it.
DnsManager ==
  /\ network_active = TRUE
  /\ m_custom_server = Null
  /\ res_nsaddr = SystemNameserver
  /\ m_slot_resolver = "resolve_host_system"
  /\ m_cache = EmptyMap
  /\ process = "running"
  /\ history = EmptyMap
  /\ pending = {}

----------------------------------------------------------------------------
(* Arithmetic.  The counters and times are uint32_t in the source; every    *)
(* value of the model stays far below 2^32 and the clock never runs        *)
(* backwards, so no sum wraps and no difference is negative.               *)

Min(a, b) == IF a < b THEN a ELSE b

RECURSIVE ShiftLeft(_, _)
ShiftLeft(x, n) == IF n = 0 THEN x ELSE ShiftLeft(2 * x, n - 1)

----------------------------------------------------------------------------
(* Tracker *)

\* Tracker::Tracker: the fields of a freshly constructed tracker.
Tracker(type, flags) ==
  [ type |-> type,
    flags |-> flags,
    group |-> 0,
    usable |-> TRUE,
    busy |-> FALSE,
    normal_interval |-> 1800,
    latest_event |-> "NONE",
    latest_new_peers |-> 0,
    latest_sum_peers |-> 0,
    success_time_last |-> 0,
    success_counter |-> 0,
    failed_time_last |-> 0,
    failed_counter |-> 0,
    scrape_time_last |-> 0,
    scrape_counter |-> 0,
    request_time_last |-> cachedTime,
    request_counter |-> 0,
    enabled_status |-> "undefined" ]

\* flags() & Tracker::flag_can_scrape
flag_can_scrape(tr) == "can_scrape" \in tr.flags

\* Tracker::is_protocol_enabled
is_protocol_enabled(type) == protocol_enabled[type]

\* Tracker::success_time_next
success_time_next(tr) ==
  IF tr.success_counter = 0 THEN 0
  ELSE tr.success_time_last + tr.normal_interval

failed_time_next_shift_uncapped(tr) ==
  IF tr.failed_counter = 0 THEN 0
  ELSE tr.failed_time_last + ShiftLeft(5, tr.failed_counter - 1)

failed_time_next_cap_five(tr) ==
  IF tr.failed_counter = 0 THEN 0
  ELSE tr.failed_time_last + ShiftLeft(5, Min(tr.failed_counter - 1, 5))

\* Tracker::failed_time_next
failed_time_next(tr) ==
  IF tr.failed_counter = 0 THEN 0
  ELSE tr.failed_time_last + ShiftLeft(5, Min(tr.failed_counter - 1, 6))

\* Tracker::is_busy, Tracker::is_usable, Tracker::can_request_state: the
\* variant-level predicates of the tracker abstraction.
is_busy(tr) == tr.busy

tracker_is_usable(tr) == tr.usable

can_request_state(tr) ==
  ~(is_busy(tr) /\ tr.latest_event # "SCRAPE") /\ tracker_is_usable(tr)

\* is_usable that does not ask whether the protocol is enabled.
is_usable_any_protocol(tr) ==
  CASE tr.enabled_status = "on" -> tracker_is_usable(tr)
    [] tr.enabled_status = "off" -> FALSE
    [] tr.enabled_status = "undefined" -> tracker_is_usable(tr)

\* TrackerList::is_usable
is_usable(tr) ==
  CASE tr.enabled_status = "on" -> tracker_is_usable(tr)
    [] tr.enabled_status = "off" -> FALSE
    [] tr.enabled_status = "undefined" ->
         is_protocol_enabled(tr.type) /\ tracker_is_usable(tr)

\* can_request without the can_request_state test.
can_request_usable_only(tr) == is_usable(tr)

\* The lambda can_request of find_next_to_request.
can_request(tr) == is_usable(tr) /\ can_request_state(tr)

----------------------------------------------------------------------------
(* The protocol variants, as the list sees them: a request in flight makes *)
(* the tracker busy, close() aborts it.                                    *)

tracker_send_state(tr, event) == [tr EXCEPT !.busy = TRUE, !.latest_event = event]

tracker_send_scrape(tr) == [tr EXCEPT !.busy = TRUE, !.latest_event = "SCRAPE"]

tracker_close(tr) == [tr EXCEPT !.busy = FALSE]

\* The counter forgotten as soon as one second has passed.
inc_request_counter_reset(tr) ==
  LET elapsed == cachedTime - tr.request_time_last
      decayed == IF elapsed > 0 THEN 0 ELSE tr.request_counter
  IN  [tr EXCEPT !.request_counter = decayed + 1,
                 !.request_time_last = cachedTime]

\* The error raised one request later.
inc_request_counter_throws_above(tr) == tr.request_counter > 10

\* Tracker::inc_request_counter: the tracker after the call; the call throws
\* internal_error exactly when inc_request_counter_throws holds of the result.
inc_request_counter(tr) ==
  LET elapsed == cachedTime - tr.request_time_last
      decayed == tr.request_counter - Min(tr.request_counter, elapsed)
  IN  [tr EXCEPT !.request_counter = decayed + 1,
                 !.request_time_last = cachedTime]

inc_request_counter_throws(tr) == tr.request_counter >= 10

\* Tracker::clear_stats
clear_stats(tr) ==
  [tr EXCEPT !.latest_new_peers = 0, !.latest_sum_peers = 0,
             !.success_counter = 0, !.failed_counter = 0, !.scrape_counter = 0]

----------------------------------------------------------------------------
(* TrackerList: positions and groups *)

End(L) == Len(L) + 1

group_at(L, T, i) == T[L[i]].group

\* base_type find: the position of tracker t, End(L) when it is not a member.
RECURSIVE find_from(_, _, _)
find_from(L, t, i) ==
  IF i > Len(L) THEN End(L)
  ELSE IF L[i] = t THEN i
  ELSE find_from(L, t, i + 1)

find(L, t) == find_from(L, t, 1)

RECURSIVE begin_group_from(_, _, _, _)
begin_group_from(L, T, group, i) ==
  IF i > Len(L) THEN End(L)
  ELSE IF group <= group_at(L, T, i) THEN i
  ELSE begin_group_from(L, T, group, i + 1)

\* TrackerList::begin_group: the first position whose group is >= group.
begin_group(L, T, group) == begin_group_from(L, T, group, 1)

\* TrackerList::end_group
end_group(L, T, group) == begin_group(L, T, group + 1)

\* TrackerList::size_group
\* size_group that reads the first entry instead of the last.
size_group_front(L, T) == IF Len(L) # 0 THEN group_at(L, T, 1) + 1 ELSE 0

size_group(L, T) == IF Len(L) # 0 THEN group_at(L, T, Len(L)) + 1 ELSE 0

\* std::vector::insert before position i
InsertAt(L, i, t) == SubSeq(L, 1, i - 1) \o <<t>> \o SubSeq(L, i, Len(L))

\* std::iter_swap / std::swap of two positions
Swap(L, i, j) == [L EXCEPT ![i] = L[j], ![j] = L[i]]

----------------------------------------------------------------------------
(* TrackerList::find_next_to_request *)

RECURSIVE first_can_request(_, _, _)
first_can_request(L, T, itr) ==
  IF itr > Len(L) THEN End(L)
  ELSE IF can_request(T[L[itr]]) THEN itr
  ELSE first_can_request(L, T, itr + 1)

\* The scan without the break at the first clean tracker.
RECURSIVE better_candidate_scan_no_break(_, _, _, _)
better_candidate_scan_no_break(L, T, itr, better_candidate) ==
  IF better_candidate > Len(L) THEN itr
  ELSE IF ~can_request(T[L[better_candidate]])
    THEN better_candidate_scan_no_break(L, T, itr, better_candidate + 1)
  ELSE IF T[L[better_candidate]].failed_counter # 0
    THEN better_candidate_scan_no_break(L, T,
           IF failed_time_next(T[L[better_candidate]]) < failed_time_next(T[L[itr]])
             THEN better_candidate ELSE itr,
           better_candidate + 1)
  ELSE better_candidate_scan_no_break(L, T,
           IF success_time_next(T[L[better_candidate]]) < failed_time_next(T[L[itr]])
             THEN better_candidate ELSE itr,
           better_candidate + 1)

RECURSIVE better_candidate_scan(_, _, _, _)
better_candidate_scan(L, T, itr, better_candidate) ==
  IF better_candidate > Len(L) THEN itr
  ELSE IF ~can_request(T[L[better_candidate]])
    THEN better_candidate_scan(L, T, itr, better_candidate + 1)
  ELSE IF T[L[better_candidate]].failed_counter # 0
    THEN better_candidate_scan(L, T,
           IF failed_time_next(T[L[better_candidate]]) < failed_time_next(T[L[itr]])
             THEN better_candidate ELSE itr,
           better_candidate + 1)
  ELSE IF success_time_next(T[L[better_candidate]]) < failed_time_next(T[L[itr]])
    THEN better_candidate
  ELSE itr

find_next_to_request(L, T, start) ==
  LET itr == first_can_request(L, T, start)
  IN  IF itr # End(L) /\ T[L[itr]].failed_counter # 0
        THEN better_candidate_scan(L, T, itr, itr + 1)
        ELSE itr

----------------------------------------------------------------------------
(* TrackerList: the handlers as functions of the tracker or the list.      *)

\* TrackerList::send_state: the tracker after the call, what the call did and
\* whether inc_request_counter threw.
Outcome(tr, sends, scrapes, closes, incs, threw) ==
  [ tr |-> tr, sends |-> sends, scrapes |-> scrapes, closes |-> closes,
    incs |-> incs, threw |-> threw ]

\* send_state that does not look at what the tracker is busy with.
send_state_any_busy(tr, new_event) ==
  IF ~is_usable(tr) \/ new_event = "SCRAPE" THEN Outcome(tr, 0, 0, 0, 0, FALSE)
  ELSE LET closed == IF is_busy(tr) THEN tracker_close(tr) ELSE tr
           sent == inc_request_counter(tracker_send_state(closed, new_event))
       IN  Outcome(sent, 1, 0, IF is_busy(tr) THEN 1 ELSE 0, 1,
                   inc_request_counter_throws(sent))

\* send_state that dispatches over a scrape in flight without closing it.
send_state_no_close(tr, new_event) ==
  IF ~is_usable(tr) \/ new_event = "SCRAPE" THEN Outcome(tr, 0, 0, 0, 0, FALSE)
  ELSE IF is_busy(tr) /\ tr.latest_event # "SCRAPE" THEN Outcome(tr, 0, 0, 0, 0, FALSE)
  ELSE LET sent == inc_request_counter(tracker_send_state(tr, new_event))
       IN  Outcome(sent, 1, 0, 0, 1, inc_request_counter_throws(sent))

\* TrackerList::send_state
send_state(tr, new_event) ==
  IF ~is_usable(tr) \/ new_event = "SCRAPE" THEN Outcome(tr, 0, 0, 0, 0, FALSE)
  ELSE IF is_busy(tr) /\ tr.latest_event # "SCRAPE" THEN Outcome(tr, 0, 0, 0, 0, FALSE)
  ELSE LET closed == IF is_busy(tr) THEN tracker_close(tr) ELSE tr
           sent == inc_request_counter(tracker_send_state(closed, new_event))
       IN  Outcome(sent, 1, 0, IF is_busy(tr) THEN 1 ELSE 0, 1,
                   inc_request_counter_throws(sent))

\* send_scrape that still waits when exactly ten minutes have passed.
send_scrape_wait_at_limit(tr) ==
  IF is_busy(tr) \/ ~is_usable(tr) THEN Outcome(tr, 0, 0, 0, 0, FALSE)
  ELSE IF ~flag_can_scrape(tr) THEN Outcome(tr, 0, 0, 0, 0, FALSE)
  ELSE IF tr.scrape_time_last + 10 * 60 >= cachedTime THEN Outcome(tr, 0, 0, 0, 0, FALSE)
  ELSE LET sent == inc_request_counter(tracker_send_scrape(tr))
       IN  Outcome(sent, 0, 1, 0, 1, inc_request_counter_throws(sent))

\* TrackerList::send_scrape
send_scrape(tr) ==
  IF is_busy(tr) \/ ~is_usable(tr) THEN Outcome(tr, 0, 0, 0, 0, FALSE)
  ELSE IF ~flag_can_scrape(tr) THEN Outcome(tr, 0, 0, 0, 0, FALSE)
  ELSE IF tr.scrape_time_last + 10 * 60 > cachedTime THEN Outcome(tr, 0, 0, 0, 0, FALSE)
  ELSE LET sent == inc_request_counter(tracker_send_scrape(tr))
       IN  Outcome(sent, 0, 1, 0, 1, inc_request_counter_throws(sent))

\* set_enabled_status whose list does not close a tracker that its protocol
\* disables.
set_enabled_status_no_list_close(tr, enabled_status) ==
  IF enabled_status = tr.enabled_status
    THEN [tr |-> tr, closes |-> 0, slot |-> "none"]
    ELSE
      LET old == tr.enabled_status
          off_closed == IF enabled_status = "off" THEN tracker_close(tr) ELSE tr
          changed == [off_closed EXCEPT !.enabled_status = enabled_status]
          protocol_is_on == is_protocol_enabled(tr.type)
          tracker_was_on == old = "on" \/ (old = "undefined" /\ protocol_is_on)
          tracker_is_on == enabled_status = "on"
                             \/ (enabled_status = "undefined" /\ protocol_is_on)
      IN  [ tr |-> changed,
            closes |-> IF enabled_status = "off" THEN 1 ELSE 0,
            slot |-> IF tracker_is_on = tracker_was_on THEN "none"
                     ELSE IF tracker_is_on THEN "tracker_enabled"
                     ELSE "tracker_disabled" ]

\* Tracker::set_enabled_status with TrackerList::receive_tracker_enabled_change:
\* the tracker after the call, the closes made and the slot invoked.
set_enabled_status(tr, enabled_status) ==
  IF enabled_status = tr.enabled_status
    THEN [tr |-> tr, closes |-> 0, slot |-> "none"]
    ELSE
      LET old == tr.enabled_status
          off_closed == IF enabled_status = "off" THEN tracker_close(tr) ELSE tr
          changed == [off_closed EXCEPT !.enabled_status = enabled_status]
          protocol_is_on == is_protocol_enabled(tr.type)
          tracker_was_on == old = "on" \/ (old = "undefined" /\ protocol_is_on)
          tracker_is_on == enabled_status = "on"
                             \/ (enabled_status = "undefined" /\ protocol_is_on)
          list_closes == tracker_was_on /\ enabled_status = "undefined" /\ ~protocol_is_on
      IN  [ tr |-> IF list_closes THEN tracker_close(changed) ELSE changed,
            closes |-> (IF enabled_status = "off" THEN 1 ELSE 0)
                         + (IF list_closes THEN 1 ELSE 0),
            slot |-> IF tracker_is_on = tracker_was_on THEN "none"
                     ELSE IF tracker_is_on THEN "tracker_enabled"
                     ELSE "tracker_disabled" ]

\* insert that places the tracker before the entries of its group.
insert_at_begin_group(L, T, group, t) == InsertAt(L, begin_group(L, T, group), t)

\* TrackerList::insert: the list after insert(group, tracker).
insert(L, T, group, t) == InsertAt(L, end_group(L, T, group), t)

\* std::strncmp(prefix, url.c_str(), strlen(prefix)) == 0, a URL being the
\* sequence of its characters.
has_prefix(url, prefix) ==
  Len(url) >= Len(prefix) /\ SubSeq(url, 1, Len(prefix)) = prefix

\* insert_url that builds the DHT variant whether or not DHT is allowed.
insert_url_type_dht_always(url, dht_allowed) ==
  IF \/ has_prefix(url, <<"h", "t", "t", "p", ":", "/", "/">>)
     \/ has_prefix(url, <<"h", "t", "t", "p", "s", ":", "/", "/">>) THEN "http"
  ELSE IF has_prefix(url, <<"u", "d", "p", ":", "/", "/">>) THEN "udp"
  ELSE IF has_prefix(url, <<"d", "h", "t", ":", "/", "/">>) THEN "dht"
  ELSE "none"

\* TrackerList::insert_url: the variant constructed for the URL, "none" when
\* no protocol matches; dht_allowed is TrackerDht::is_allowed().
insert_url_type(url, dht_allowed) ==
  IF \/ has_prefix(url, <<"h", "t", "t", "p", ":", "/", "/">>)
     \/ has_prefix(url, <<"h", "t", "t", "p", "s", ":", "/", "/">>) THEN "http"
  ELSE IF has_prefix(url, <<"u", "d", "p", ":", "/", "/">>) THEN "udp"
  ELSE IF has_prefix(url, <<"d", "h", "t", ":", "/", "/">>) /\ dht_allowed THEN "dht"
  ELSE "none"

\* The flags of the tracker insert_url constructs; the HTTP variant adds
\* flag_can_scrape for an announce URL.
insert_url_flags(type, extra_tracker) ==
  (IF extra_tracker THEN {"extra_tracker"} ELSE {})
    \cup (IF type = "http" THEN {"can_scrape"} ELSE {})

\* promote that copies the tracker over the first of its group instead of
\* swapping the two.
promote_overwrites(L, T, itr) ==
  [L EXCEPT ![begin_group(L, T, group_at(L, T, itr))] = L[itr]]

\* promote that swaps with begin() instead of the first of the group.
promote_to_front(L, T, itr) == Swap(L, 1, itr)

\* TrackerList::promote: swaps position itr with the first of its group;
\* throws when begin_group finds no position.
promote_throws(L, T, itr) == begin_group(L, T, group_at(L, T, itr)) = End(L)

promote(L, T, itr) == Swap(L, begin_group(L, T, group_at(L, T, itr)), itr)

\* The cycle_group loop leaving after its first swap.
cycle_group_from_once(L, T, group, prev) ==
  IF prev + 1 <= Len(L) /\ group_at(L, T, prev + 1) = group
    THEN Swap(L, prev + 1, prev)
    ELSE L

\* TrackerList::cycle_group: the loop that swaps prev with its successor
\* while the successor is in the group.
RECURSIVE cycle_group_from(_, _, _, _)
cycle_group_from(L, T, group, prev) ==
  IF prev + 1 <= Len(L) /\ group_at(L, T, prev + 1) = group
    THEN cycle_group_from(Swap(L, prev + 1, prev), T, group, prev + 1)
    ELSE L

cycle_group(L, T, group) ==
  LET itr == begin_group(L, T, group)
  IN  IF itr = End(L) \/ group_at(L, T, itr) # group THEN L
      ELSE cycle_group_from(L, T, group, itr)

\* TrackerList::randomize_group_entries: the ranges [itr, end_group) that the
\* loop shuffles, as a set of <<first, past-the-last>> pairs.
RECURSIVE shuffle_ranges(_, _, _)
shuffle_ranges(L, T, itr) ==
  IF itr > Len(L) THEN {}
  ELSE LET tmp == end_group(L, T, group_at(L, T, itr))
       IN  IF tmp <= itr THEN {}
           ELSE {<<itr, tmp>>} \cup shuffle_ranges(L, T, tmp)

\* The lists std::shuffle can leave: every range permuted within itself.
randomize_group_entries(L, T) ==
  LET ranges == shuffle_ranges(L, T, 1)
      covered(i) == \E r \in ranges : r[1] <= i /\ i < r[2]
  IN  { [i \in 1 .. Len(L) |-> L[p[i]]] :
          p \in { q \in Permutations(1 .. Len(L)) :
                    \A i \in 1 .. Len(L) :
                      IF covered(i)
                        THEN \E r \in ranges : r[1] <= i /\ i < r[2]
                                               /\ r[1] <= q[i] /\ q[i] < r[2]
                        ELSE q[i] = i } }

\* A precondition that lets a busy member through.
receive_throws_not_member(L, T, t) == find(L, t) = End(L)

\* The precondition of the four receive_* handlers: internal_error unless
\* the tracker is a member and not busy.
receive_throws(L, T, t) == find(L, t) = End(L) \/ is_busy(T[t])

\* l->sort(); l->erase(std::unique(...)): the number of addresses left.
RECURSIVE sort_unique_size(_)
sort_unique_size(l) ==
  IF l = <<>> THEN 0
  ELSE LET rest == SelectSeq(Tail(l), LAMBDA a : a # Head(l))
       IN  1 + sort_unique_size(rest)

\* receive_success that forgets to reset failed_counter.
receive_success_keeps_failures(tr, l, new_peers) ==
  [tr EXCEPT !.success_time_last = cachedTime,
             !.success_counter = @ + 1,
             !.latest_sum_peers = sort_unique_size(l),
             !.latest_new_peers = new_peers]

\* TrackerList::receive_success: the tracker's fields after the call.
receive_success(tr, l, new_peers) ==
  [tr EXCEPT !.success_time_last = cachedTime,
             !.success_counter = @ + 1,
             !.failed_counter = 0,
             !.latest_sum_peers = sort_unique_size(l),
             !.latest_new_peers = new_peers]

\* receive_failed that does not count the failure it records.
receive_failed_not_counted(tr) == [tr EXCEPT !.failed_time_last = cachedTime]

\* TrackerList::receive_failed
receive_failed(tr) ==
  [tr EXCEPT !.failed_time_last = cachedTime, !.failed_counter = @ + 1]

\* TrackerList::receive_scrape_success
receive_scrape_success(tr) ==
  [tr EXCEPT !.scrape_time_last = cachedTime, !.scrape_counter = @ + 1]

----------------------------------------------------------------------------
(* DNS resolver: the two strategies.  A strategy returns the error code,   *)
(* the address (Null when none), whether it threw, and the trace of what   *)
(* it did to the global lock and to the network, in order.                 *)

\* What getaddrinfo answers for a key: error code 0 with an address of the
\* family asked for, or one of the EAI_* codes, which are never 0.
EaiErrors == {-2, -3}

GetAddrInfo(key) ==
  { [error_code |-> 0, ai_addr |-> SockAddr(key.m_family, a, 0)] : a \in Addrs }
    \cup { [error_code |-> e, ai_addr |-> Null] : e \in EaiErrors }

Strategy(error_code, sa, threw, trace) ==
  [error_code |-> error_code, sa |-> sa, threw |-> threw, trace |-> trace]

\* resolve_host_system that does not take the lock back when the lookup fails.
resolve_host_system_fail_unlocked(is_current, ai) ==
  Strategy(ai.error_code, IF ai.error_code = 0 THEN ai.ai_addr ELSE Null, FALSE,
           (IF is_current THEN <<"release_global_lock">> ELSE <<>>)
             \o <<"getaddrinfo">>
             \o (IF is_current /\ ai.error_code = 0
                   THEN <<"acquire_global_lock">> ELSE <<>>))

\* resolve_host_system of dns_manager.cc; is_current is
\* main_thread_main()->is_current(), ai what getaddrinfo answers.
resolve_host_system(is_current, ai) ==
  Strategy(ai.error_code, IF ai.error_code = 0 THEN ai.ai_addr ELSE Null, FALSE,
           (IF is_current THEN <<"release_global_lock">> ELSE <<>>)
             \o <<"getaddrinfo">>
             \o (IF is_current THEN <<"acquire_global_lock">> ELSE <<>>))

\* The resource records of an answer section: an A record with rdata a, an A
\* record of a wrong length, a record of another type, and a record that
\* ns_parserr rejects.
Records ==
  { [parserr |-> 0, type |-> "ns_t_a", rdlength |-> 4, rdata |-> a] : a \in Addrs }
    \cup { [parserr |-> 0, type |-> "ns_t_a", rdlength |-> 16, rdata |-> 1],
           [parserr |-> 0, type |-> "ns_t_cname", rdlength |-> 8, rdata |-> 1],
           [parserr |-> -1, type |-> "ns_t_a", rdlength |-> 4, rdata |-> 1] }

\* What res_nquery and ns_initparse make of a query: len is -1 when the query
\* failed, initparse is -1 when the response does not parse, an is the
\* answer section.
Responses ==
  { [len |-> -1, initparse |-> -1, an |-> <<>>],
    [len |-> 64, initparse |-> -1, an |-> <<>>] }
    \cup { [len |-> 64, initparse |-> 0, an |-> an] :
             an \in UNION { [1 .. n -> Records] : n \in 0 .. MaxAnswers } }

\* The values errno can hold when resolve_host_custom reads it: a failed
\* call sets it, h_errno-only failures and successful calls leave what was
\* there, 0 included.
Errnos == {0, 110}

\* The loop of resolve_host_custom over the answer section from record
\* i_msg on: the address it ends with, and whether a wrong rdlength made it
\* throw.
RECURSIVE parse_answers(_, _, _)
parse_answers(an, i_msg, sa) ==
  IF i_msg > Len(an) THEN [sa |-> sa, threw |-> FALSE]
  ELSE LET rr == an[i_msg]
       IN  IF rr.parserr = 0 /\ rr.type = "ns_t_a"
             THEN IF rr.rdlength # 4 THEN [sa |-> Null, threw |-> TRUE]
                  ELSE parse_answers(an, i_msg + 1, SockAddr("AF_INET", rr.rdata, 0))
             ELSE parse_answers(an, i_msg + 1, sa)

\* resolve_host_custom of dns_manager.cc
resolve_host_custom(response, errno) ==
  LET parsed == IF response.len > -1 /\ response.initparse > -1
                  THEN parse_answers(response.an, 1, Null)
                  ELSE [sa |-> Null, threw |-> FALSE]
  IN  IF parsed.threw THEN Strategy(0, Null, TRUE, <<"res_nquery">>)
      ELSE Strategy(IF parsed.sa # Null THEN 0 ELSE errno, parsed.sa, FALSE,
                    <<"res_nquery">>)

\* resolve_host_system of connection_manager.cc: the slot is invoked after
\* the lock is taken back.
cm_resolve_host_system(is_current, ai) ==
  LET release == IF is_current THEN <<"release_global_lock">> ELSE <<>>
      acquire == IF is_current THEN <<"acquire_global_lock">> ELSE <<>>
  IN  IF ai.error_code # 0
        THEN Strategy(ai.error_code, Null, FALSE,
                      release \o <<"getaddrinfo">> \o acquire \o <<"callback">>)
        ELSE Strategy(0, ai.ai_addr, FALSE,
                      release \o <<"getaddrinfo">> \o acquire \o <<"callback">>)

\* The loop of resolve_host_custom of connection_manager.cc: it returns at
\* the first A record.
RECURSIVE cm_parse_answers(_, _)
cm_parse_answers(an, i_msg) ==
  IF i_msg > Len(an) THEN [sa |-> Null, threw |-> FALSE]
  ELSE LET rr == an[i_msg]
       IN  IF rr.parserr = 0 /\ rr.type = "ns_t_a"
             THEN IF rr.rdlength # 4 THEN [sa |-> Null, threw |-> TRUE]
                  ELSE [sa |-> SockAddr("AF_INET", rr.rdata, 0), threw |-> FALSE]
             ELSE cm_parse_answers(an, i_msg + 1)

\* resolve_host_custom of connection_manager.cc
cm_resolve_host_custom(response, errno) ==
  LET parsed == IF response.len > -1 /\ response.initparse > -1
                  THEN cm_parse_answers(response.an, 1)
                  ELSE [sa |-> Null, threw |-> FALSE]
  IN  IF parsed.threw THEN Strategy(0, Null, TRUE, <<"res_nquery">>)
      ELSE Strategy(IF parsed.sa # Null THEN 0 ELSE errno, parsed.sa, FALSE,
                    <<"res_nquery", "callback">>)

----------------------------------------------------------------------------
(* DNS resolver: the cache, DnsManager and the hook of ConnectionManager   *)

\* Cache::retrieve that never finds an entry.
retrieve_never(values, key) == FALSE

\* Cache::retrieve: whether the map holds the key; the entry is values[key].
retrieve(values, key) == key \in DOMAIN values

\* Cache::add: std::map::insert keeps an entry that is already there.
add(values, key, error_code, sa) ==
  IF key \in DOMAIN values THEN values
  ELSE values @@ (key :> Value(sa, error_code))

\* DnsManager::Implementation::m_enabled, which nothing assigns.
m_enabled == TRUE

\* DnsManager::Implementation::is_on
is_on == network_active /\ m_enabled

\* What a call of resolve did: the value returned, the callbacks made with
\* their address and error code, the live lookups made, the trace and the
\* cache it leaves.
Resolved(ret, callbacks, sa, error_code, live, threw, trace, values) ==
  [ ret |-> ret, callbacks |-> callbacks, sa |-> sa, error_code |-> error_code,
    live |-> live, threw |-> threw, trace |-> trace, values |-> values ]

\* DnsManager::resolve(host, family, socktype, cb) for the key; ai, response
\* and errno are what the lookup of the strategy in use meets.  resolve_miss
\* is the branch taken when the cache does not hold the key: the lookup,
\* Cache::add, and the callback made with the address add returns and the
\* error code of the lookup.
resolve_miss(key, is_current, ai, response, errno) ==
  LET got == IF m_custom_server = Null
               THEN resolve_host_system(is_current, ai)
               ELSE resolve_host_custom(response, errno)
      values == add(m_cache, key, got.error_code, got.sa)
  IN  IF got.threw
        THEN Resolved(TRUE, 0, Null, 0, 1, TRUE, got.trace, m_cache)
        ELSE Resolved(FALSE, 1, values[key].m_sa, got.error_code, 1, FALSE,
                      got.trace \o <<"cache_add", "callback">>, values)

resolve(key, is_current, ai, response, errno) ==
  IF ~is_on THEN Resolved(TRUE, 0, Null, 0, 0, FALSE, <<>>, m_cache)
  ELSE IF retrieve(m_cache, key)
    THEN Resolved(FALSE, 1, m_cache[key].m_sa, m_cache[key].m_error_code, 0,
                  FALSE, <<"callback">>, m_cache)
    ELSE resolve_miss(key, is_current, ai, response, errno)

\* The addresses given to server_set and dns_server_set.
ServerAddrs ==
  {Null} \cup { SockAddr(family, 1, port) : family \in Families, port \in {0, 5353} }

\* What reading sizeof(sockaddr_in) bytes through a null pointer can do: end
\* the process, or yield bytes that are no address the caller gave.
NullReads == {"crash", "garbage"}

\* What a call of server_set or dns_server_set did: the exception thrown
\* ("none" when none), whether the process crashed, whether the strategy was
\* assigned, and the nameserver of _res.
ServerSetResult(threw, crashed, assigned, nsaddr) ==
  [threw |-> threw, crashed |-> crashed, assigned |-> assigned, nsaddr |-> nsaddr]

\* The body shared by DnsManager::server_set and
\* ConnectionManager::dns_server_set up to the assignment of the strategy;
\* r is what res_ninit returns, null_read what memcpy from a null sa does.
server_set(sa, r, null_read) ==
  IF sa # Null /\ sa.family # "AF_INET"
    THEN ServerSetResult("input_error", FALSE, FALSE, res_nsaddr)
  ELSE IF r # 0
    THEN ServerSetResult("internal_error", FALSE, FALSE, SystemNameserver)
  ELSE IF sa = Null
    THEN IF null_read = "crash"
           THEN ServerSetResult("none", TRUE, FALSE, SystemNameserver)
           ELSE ServerSetResult("none", FALSE, TRUE, SockAddr("AF_INET", 0, 0))
  ELSE ServerSetResult("none", FALSE, TRUE,
                       [sa EXCEPT !.port = IF sa.port = 0 THEN 53 ELSE sa.port])

\* ConnectionManager::dns_server_set
dns_server_set(sa, r, null_read) == server_set(sa, r, null_read)

----------------------------------------------------------------------------
(* The record of the latest call: op is the operation, t the tracker (0    *)
(* when none), event and n its arguments, ret the position it returned,    *)
(* threw whether it raised an error, slot the user callback it invoked     *)
(* ("none" when it invoked none); sends, scrapes, closes and incs count    *)
(* the calls it made to Tracker::send_state, Tracker::send_scrape,         *)
(* Tracker::close and Tracker::inc_request_counter.  The slots of the list *)
(* are installed.                                                          *)

NoCall ==
  [ op |-> "none", t |-> 0, event |-> "NONE", n |-> 0, ret |-> 0, threw |-> FALSE,
    slot |-> "none", sends |-> 0, scrapes |-> 0, closes |-> 0, incs |-> 0,
    url |-> <<>>, extra_tracker |-> FALSE, dht_allowed |-> FALSE,
    enabled_status |-> "undefined" ]

\* find_next_to_request(begin() + start - 1); the start position is valid
\* (the first statement of the function dereferences it).
FindNextToRequest(start) ==
  /\ start \in 1 .. Len(list)
  /\ last' = [NoCall EXCEPT !.op = "find_next_to_request", !.n = start,
                            !.ret = find_next_to_request(list, trk, start)]
  /\ UNCHANGED <<list, trk, cachedTime, protocol_enabled, dns_vars, calls>>

\* insert(group, t) of a tracker that is not yet owned by the list.
Insert(group, t) ==
  /\ find(list, t) = End(list)
  /\ trk' = [trk EXCEPT ![t].group = group]
  /\ list' = insert(list, trk', group, t)
  /\ last' = [NoCall EXCEPT !.op = "insert", !.t = t, !.n = group,
                            !.ret = find(list', t), !.slot = "tracker_enabled"]
  /\ UNCHANGED <<cachedTime, protocol_enabled, dns_vars, calls>>

\* insert_url(group, url, extra_tracker); t is the tracker object it
\* allocates when a protocol matches.
InsertUrl(group, url, extra_tracker, dht_allowed, t) ==
  LET type == insert_url_type(url, dht_allowed)
  IN  /\ find(list, t) = End(list)
      /\ IF type = "none"
           THEN /\ last' = [NoCall EXCEPT !.op = "insert_url", !.n = group,
                              !.threw = extra_tracker, !.url = url,
                              !.extra_tracker = extra_tracker,
                              !.dht_allowed = dht_allowed]
                /\ UNCHANGED <<list, trk>>
           ELSE /\ trk' = [trk EXCEPT ![t] =
                             [Tracker(type, insert_url_flags(type, extra_tracker))
                                EXCEPT !.group = group]]
                /\ list' = insert(list, trk', group, t)
                /\ last' = [NoCall EXCEPT !.op = "insert_url", !.t = t, !.n = group,
                              !.ret = find(list', t), !.slot = "tracker_enabled",
                              !.url = url, !.extra_tracker = extra_tracker,
                              !.dht_allowed = dht_allowed]
      /\ UNCHANGED <<cachedTime, protocol_enabled, dns_vars, calls>>

\* promote(begin() + itr - 1)
Promote(itr) ==
  /\ itr \in 1 .. Len(list)
  /\ IF promote_throws(list, trk, itr)
       THEN /\ last' = [NoCall EXCEPT !.op = "promote", !.n = itr, !.threw = TRUE]
            /\ UNCHANGED list
       ELSE /\ list' = promote(list, trk, itr)
            /\ last' = [NoCall EXCEPT !.op = "promote", !.t = list[itr], !.n = itr,
                          !.ret = begin_group(list, trk, group_at(list, trk, itr))]
  /\ UNCHANGED <<trk, cachedTime, protocol_enabled, dns_vars, calls>>

CycleGroup(group) ==
  /\ list' = cycle_group(list, trk, group)
  /\ last' = [NoCall EXCEPT !.op = "cycle_group", !.n = group]
  /\ UNCHANGED <<trk, cachedTime, protocol_enabled, dns_vars, calls>>

RandomizeGroupEntries ==
  /\ list' \in randomize_group_entries(list, trk)
  /\ last' = [NoCall EXCEPT !.op = "randomize_group_entries"]
  /\ UNCHANGED <<trk, cachedTime, protocol_enabled, dns_vars, calls>>

\* receive_success(t, l); new_peers is what the success slot returns.
ReceiveSuccess(t, l, new_peers) ==
  /\ IF receive_throws(list, trk, t) \/ promote_throws(list, trk, find(list, t))
       THEN /\ last' = [NoCall EXCEPT !.op = "receive_success", !.t = t, !.threw = TRUE]
            /\ UNCHANGED <<list, trk>>
       ELSE /\ list' = promote(list, trk, find(list, t))
            /\ trk' = [trk EXCEPT ![t] = receive_success(@, l, new_peers)]
            /\ last' = [NoCall EXCEPT !.op = "receive_success", !.t = t,
                                      !.slot = "success"]
  /\ UNCHANGED <<cachedTime, protocol_enabled, dns_vars, calls>>

ReceiveFailed(t) ==
  /\ IF receive_throws(list, trk, t)
       THEN /\ last' = [NoCall EXCEPT !.op = "receive_failed", !.t = t, !.threw = TRUE]
            /\ UNCHANGED trk
       ELSE /\ trk' = [trk EXCEPT ![t] = receive_failed(@)]
            /\ last' = [NoCall EXCEPT !.op = "receive_failed", !.t = t,
                                      !.slot = "failed"]
  /\ UNCHANGED <<list, cachedTime, protocol_enabled, dns_vars, calls>>

ReceiveScrapeSuccess(t) ==
  /\ IF receive_throws(list, trk, t)
       THEN /\ last' = [NoCall EXCEPT !.op = "receive_scrape_success", !.t = t,
                                      !.threw = TRUE]
            /\ UNCHANGED trk
       ELSE /\ trk' = [trk EXCEPT ![t] = receive_scrape_success(@)]
            /\ last' = [NoCall EXCEPT !.op = "receive_scrape_success", !.t = t,
                                      !.slot = "scrape_success"]
  /\ UNCHANGED <<list, cachedTime, protocol_enabled, dns_vars, calls>>

ReceiveScrapeFailed(t) ==
  /\ IF receive_throws(list, trk, t)
       THEN last' = [NoCall EXCEPT !.op = "receive_scrape_failed", !.t = t,
                                   !.threw = TRUE]
       ELSE last' = [NoCall EXCEPT !.op = "receive_scrape_failed", !.t = t,
                                   !.slot = "scrape_failed"]
  /\ UNCHANGED <<list, trk, cachedTime, protocol_enabled, dns_vars, calls>>

\* TrackerList::send_state(t, new_event)
SendState(t, new_event) ==
  LET out == send_state(trk[t], new_event)
  IN  /\ trk' = [trk EXCEPT ![t] = out.tr]
      /\ last' = [NoCall EXCEPT !.op = "send_state", !.t = t, !.event = new_event,
                    !.threw = out.threw, !.sends = out.sends, !.scrapes = out.scrapes,
                    !.closes = out.closes, !.incs = out.incs]
      /\ UNCHANGED <<list, cachedTime, protocol_enabled, dns_vars, calls>>

\* TrackerList::send_scrape(t)
SendScrape(t) ==
  LET out == send_scrape(trk[t])
  IN  /\ trk' = [trk EXCEPT ![t] = out.tr]
      /\ last' = [NoCall EXCEPT !.op = "send_scrape", !.t = t,
                    !.threw = out.threw, !.sends = out.sends, !.scrapes = out.scrapes,
                    !.closes = out.closes, !.incs = out.incs]
      /\ UNCHANGED <<list, cachedTime, protocol_enabled, dns_vars, calls>>

\* Tracker::set_enabled_status(enabled_status) on tracker t.
SetEnabledStatus(t, enabled_status) ==
  LET out == set_enabled_status(trk[t], enabled_status)
  IN  /\ trk' = [trk EXCEPT ![t] = out.tr]
      /\ last' = [NoCall EXCEPT !.op = "set_enabled_status", !.t = t,
                    !.enabled_status = enabled_status,
                    !.closes = out.closes, !.slot = out.slot]
      /\ UNCHANGED <<list, cachedTime, protocol_enabled, dns_vars, calls>>

\* The protocol implementation ends its request and clears its busy flag,
\* as it does before it reports a result to the list.
RequestDone(t) ==
  /\ is_busy(trk[t])
  /\ trk' = [trk EXCEPT ![t] = tracker_close(@)]
  /\ last' = [NoCall EXCEPT !.op = "request_done", !.t = t]
  /\ UNCHANGED <<list, cachedTime, protocol_enabled, dns_vars, calls>>

\* Tracker::inc_request_counter() called on tracker t.
IncRequestCounter(t) ==
  LET tr == inc_request_counter(trk[t])
  IN  /\ trk' = [trk EXCEPT ![t] = tr]
      /\ calls' = Append(calls, [time |-> cachedTime,
                                 threw |-> inc_request_counter_throws(tr)])
      /\ last' = [NoCall EXCEPT !.op = "inc_request_counter", !.t = t,
                                !.threw = inc_request_counter_throws(tr), !.incs = 1]
      /\ UNCHANGED <<list, cachedTime, protocol_enabled, dns_vars>>

\* TrackerList::clear_stats
ClearStats ==
  /\ trk' = [t \in TrackerIds |-> IF find(list, t) # End(list)
                                    THEN clear_stats(trk[t]) ELSE trk[t]]
  /\ last' = [NoCall EXCEPT !.op = "clear_stats"]
  /\ UNCHANGED <<list, cachedTime, protocol_enabled, dns_vars, calls>>

\* The clock moves on to the time now.
Tick(now) ==
  /\ now > cachedTime
  /\ cachedTime' = now
  /\ last' = [NoCall EXCEPT !.op = "tick"]
  /\ UNCHANGED <<list, trk, protocol_enabled, dns_vars, calls>>

\* DnsManager::resolve(host, family, socktype, cb) called on the main thread
\* (is_current) or on another one.
Resolve(key, is_current, ai, response, errno) ==
  LET out == resolve(key, is_current, ai, response, errno)
  IN  /\ process = "running"
      /\ key \in DOMAIN m_cache \/ Cardinality(DOMAIN m_cache) < MaxCached
      /\ m_cache' = out.values
      /\ history' =
           IF out.live = 0 /\ out.callbacks = 0 THEN history
           ELSE IF key \in DOMAIN history
             THEN [history EXCEPT ![key].lookups = @ + out.live]
             ELSE history @@ (key :> [lookups |-> out.live,
                                      first |-> Value(out.sa, out.error_code)])
      /\ process' = IF out.threw THEN "internal_error" ELSE process
      /\ last' = [ op |-> "resolve", key |-> key, is_current |-> is_current,
                   on |-> is_on, custom |-> m_custom_server # Null,
                   ret |-> out.ret, callbacks |-> out.callbacks, sa |-> out.sa,
                   error_code |-> out.error_code, live |-> out.live,
                   threw |-> out.threw, trace |-> out.trace,
                   overlapped |-> FALSE ]
      /\ UNCHANGED <<tracker_vars, pending, network_active, m_custom_server, res_nsaddr,
                     m_slot_resolver>>

\* DnsManager::resolve called on the main thread up to the blocking lookup:
\* the resolver is on, the cache does not hold the key, the system strategy
\* has released the global lock and waits in getaddrinfo.
ResolveBegin(key) ==
  /\ process = "running"
  /\ pending = {}
  /\ is_on /\ ~retrieve(m_cache, key) /\ m_custom_server = Null
  /\ Cardinality(DOMAIN m_cache) < MaxCached
  /\ pending' = {key}
  /\ last' = [ op |-> "resolve_begin", key |-> key, is_current |-> TRUE,
               trace |-> <<"release_global_lock">> ]
  /\ UNCHANGED <<tracker_vars, network_active, m_custom_server, res_nsaddr,
                 m_slot_resolver, m_cache, process, history>>

\* The rest of that call: getaddrinfo answers ai, the lock is taken back,
\* Cache::add is called on the cache as it is now, and the callback is made.
ResolveEnd(key, ai) ==
  LET out == resolve_miss(key, TRUE, ai, [len |-> -1, initparse |-> -1, an |-> <<>>], 0)
  IN  /\ process = "running"
      /\ pending = {key}
      /\ pending' = {}
      /\ m_cache' = out.values
      /\ history' =
           IF key \in DOMAIN history
             THEN [history EXCEPT ![key].lookups = @ + out.live]
             ELSE history @@ (key :> [lookups |-> out.live,
                                      first |-> Value(out.sa, out.error_code)])
      /\ last' = [ op |-> "resolve", key |-> key, is_current |-> TRUE,
                   on |-> TRUE, custom |-> FALSE,
                   ret |-> out.ret, callbacks |-> out.callbacks, sa |-> out.sa,
                   error_code |-> out.error_code, live |-> out.live,
                   threw |-> out.threw,
                   trace |-> SubSeq(out.trace, 2, Len(out.trace)),
                   overlapped |-> retrieve(m_cache, key),
                   lookup |-> Value(IF ai.error_code = 0 THEN ai.ai_addr ELSE Null,
                                    ai.error_code) ]
      /\ UNCHANGED <<tracker_vars, network_active, m_custom_server, res_nsaddr,
                     m_slot_resolver, process>>

\* DnsManager::cache_clear
CacheClear ==
  /\ process = "running"
  /\ m_cache' = EmptyMap
  /\ history' = EmptyMap
  /\ last' = [op |-> "cache_clear"]
  /\ UNCHANGED <<tracker_vars, pending, network_active, m_custom_server, res_nsaddr,
                 m_slot_resolver, process>>

\* DnsManager::server_set(sa)
ServerSet(sa, r, null_read) ==
  LET out == server_set(sa, r, null_read)
  IN  /\ process = "running"
      /\ m_custom_server' = IF out.assigned THEN sa ELSE m_custom_server
      /\ res_nsaddr' = out.nsaddr
      /\ process' = IF out.crashed THEN "crashed"
                    ELSE IF out.threw = "internal_error" THEN "internal_error"
                    ELSE process
      /\ last' = [ op |-> "server_set", sa |-> sa, threw |-> out.threw,
                   crashed |-> out.crashed ]
      /\ UNCHANGED <<tracker_vars, pending, network_active, m_slot_resolver, m_cache,
                     history>>

\* ConnectionManager::dns_server_set(sa)
DnsServerSet(sa, r, null_read) ==
  LET out == dns_server_set(sa, r, null_read)
  IN  /\ process = "running"
      /\ m_slot_resolver' = IF out.assigned THEN "resolve_host_custom"
                            ELSE m_slot_resolver
      /\ res_nsaddr' = out.nsaddr
      /\ process' = IF out.crashed THEN "crashed"
                    ELSE IF out.threw = "internal_error" THEN "internal_error"
                    ELSE process
      /\ last' = [ op |-> "dns_server_set", sa |-> sa, threw |-> out.threw,
                   crashed |-> out.crashed ]
      /\ UNCHANGED <<tracker_vars, pending, network_active, m_custom_server, m_cache,
                     history>>

\* The resolver hook of ConnectionManager called with a result slot.
SlotResolver(key, is_current, ai, response, errno) ==
  LET out == IF m_slot_resolver = "resolve_host_system"
               THEN cm_resolve_host_system(is_current, ai)
               ELSE cm_resolve_host_custom(response, errno)
  IN  /\ process = "running"
      /\ process' = IF out.threw THEN "internal_error" ELSE process
      /\ last' = [ op |-> "slot_resolver", key |-> key, is_current |-> is_current,
                   custom |-> m_slot_resolver = "resolve_host_custom",
                   callbacks |-> IF out.threw THEN 0 ELSE 1, sa |-> out.sa,
                   error_code |-> out.error_code, threw |-> out.threw,
                   trace |-> out.trace ]
      /\ UNCHANGED <<tracker_vars, pending, network_active, m_custom_server, res_nsaddr,
                     m_slot_resolver, m_cache, history>>

\* resolve_host_custom of dns_manager.cc called for a host, the nameserver
\* answering with response.
ResolveHostCustom(response, errno) ==
  LET out == resolve_host_custom(response, errno)
  IN  /\ process = "running"
      /\ process' = IF out.threw THEN "internal_error" ELSE process
      /\ last' = [ op |-> "resolve_host_custom", file |-> "dns_manager.cc",
                   response |-> response, errno |-> errno, sa |-> out.sa,
                   error_code |-> out.error_code, threw |-> out.threw ]
      /\ UNCHANGED <<tracker_vars, pending, network_active, m_custom_server, res_nsaddr,
                     m_slot_resolver, m_cache, history>>

\* resolve_host_custom of connection_manager.cc called for a host; sa and
\* error_code are what the slot is invoked with.
CmResolveHostCustom(response, errno) ==
  LET out == cm_resolve_host_custom(response, errno)
  IN  /\ process = "running"
      /\ process' = IF out.threw THEN "internal_error" ELSE process
      /\ last' = [ op |-> "resolve_host_custom",
                   file |-> "connection_manager.cc",
                   response |-> response, errno |-> errno, sa |-> out.sa,
                   error_code |-> out.error_code, threw |-> out.threw ]
      /\ UNCHANGED <<tracker_vars, pending, network_active, m_custom_server, res_nsaddr,
                     m_slot_resolver, m_cache, history>>

\* ConnectionManager's network-active flag is set.
NetworkActiveSet(active) ==
  /\ process = "running"
  /\ network_active' = active
  /\ last' = [op |-> "network_active_set"]
  /\ UNCHANGED <<tracker_vars, pending, m_custom_server, res_nsaddr, m_slot_resolver,
                 m_cache, process, history>>

----------------------------------------------------------------------------
(* Selection: find_next_to_request over lists of trackers in the states    *)
(* that announces, failures and status changes leave them in.              *)

Fresh(type) == [Tracker(type, {"can_scrape"}) EXCEPT !.request_time_last = 0]

Failed(tr, counter, time) ==
  [tr EXCEPT !.failed_counter = counter, !.failed_time_last = time]

Succeeded(tr, time) ==
  [tr EXCEPT !.success_counter = 1, !.success_time_last = time]

FindTrackers ==
  { \* cannot be requested
    [Fresh("http") EXCEPT !.enabled_status = "off"],
    Failed(Fresh("dht"), 1, 0),
    [Fresh("udp") EXCEPT !.busy = TRUE, !.latest_event = "STARTED"],
    Failed([Fresh("http") EXCEPT !.enabled_status = "on", !.usable = FALSE], 1, 0),
    \* can be requested, no failure
    Fresh("http"),
    Succeeded(Fresh("udp"), 0),
    Succeeded([Fresh("dht") EXCEPT !.enabled_status = "on", !.busy = TRUE,
                                   !.latest_event = "SCRAPE"], 5),
    \* can be requested, failed
    Failed(Fresh("http"), 1, 1795),
    Failed(Succeeded(Fresh("udp"), 5), 1, 1800),
    Failed(Fresh("http"), 2, 1795),
    Failed(Fresh("udp"), 3, 1790) }

InitFind ==
  /\ cachedTime = 1810
  /\ protocol_enabled = [type \in TrackerTypes |-> type # "dht"]
  /\ \E n \in 1 .. NumTrackers :
       /\ list = [i \in 1 .. n |-> i]
       /\ trk \in [TrackerIds -> FindTrackers]
       /\ \A t \in TrackerIds : t > n => trk[t] = Fresh("http")
  /\ calls = <<>>
  /\ last = NoCall
  /\ DnsManager

NextFind == \E start \in TrackerIds : FindNextToRequest(start)

SpecFind == InitFind /\ [][NextFind]_vars

----------------------------------------------------------------------------
(* Properties of find_next_to_request *)

\* Position i holds a tracker that is usable and can take an announce.
Requestable(i) ==
  /\ i \in 1 .. Len(list)
  /\ is_usable(trk[list[i]])
  /\ can_request_state(trk[list[i]])

HasFailed(i) == trk[list[i]].failed_counter > 0

\* The first requestable position at or after s, End(list) when there is none.
FirstRequestable(s) ==
  IF \E i \in s .. Len(list) : Requestable(i)
    THEN CHOOSE i \in s .. Len(list) :
           Requestable(i) /\ \A j \in s .. (i - 1) : ~Requestable(j)
    ELSE End(list)

\* The first requestable tracker without failures after position c.
FirstClean(c) ==
  IF \E i \in (c + 1) .. Len(list) : Requestable(i) /\ ~HasFailed(i)
    THEN CHOOSE i \in (c + 1) .. Len(list) :
           /\ Requestable(i) /\ ~HasFailed(i)
           /\ \A j \in (c + 1) .. (i - 1) : ~(Requestable(j) /\ ~HasFailed(j))
    ELSE End(list)

\* The initial candidate c and the requestable trackers between it and the
\* first clean one: all of them have failed.
FailedRun(c) == {c} \cup {j \in (c + 1) .. (FirstClean(c) - 1) : Requestable(j)}

\* The earliest tracker of the run with the least retry time.
BestFailed(c) ==
  CHOOSE m \in FailedRun(c) : \A j \in FailedRun(c) :
    \/ failed_time_next(trk[list[m]]) < failed_time_next(trk[list[j]])
    \/ failed_time_next(trk[list[m]]) = failed_time_next(trk[list[j]]) /\ m <= j

BetterCandidate(c) ==
  LET clean == FirstClean(c)
      best == BestFailed(c)
  IN  IF /\ clean <= Len(list)
         /\ success_time_next(trk[list[clean]]) < failed_time_next(trk[list[best]])
        THEN clean ELSE best

\* C1: when the initial candidate has failed, the failed requestable trackers
\* up to the first clean one compete on failed_time_next (strictly less
\* replaces), the first clean tracker wins exactly when its success_time_next
\* is strictly less than the winner's failed_time_next, and nothing after that
\* first clean tracker is returned.
C1_BetterCandidate ==
  last.op = "find_next_to_request" =>
    LET c == FirstRequestable(last.n)
    IN  (c # End(list) /\ HasFailed(c)) =>
          /\ last.ret = BetterCandidate(c)
          /\ last.ret <= FirstClean(c)

\* [A: failed] [B: failed, earlier retry] [C: clean, due after B's retry]: B.
C1_Witness ==
  /\ last.op = "find_next_to_request" /\ last.n = 1 /\ Len(list) = 3
  /\ Requestable(1) /\ HasFailed(1)
  /\ Requestable(2) /\ HasFailed(2)
  /\ failed_time_next(trk[list[2]]) < failed_time_next(trk[list[1]])
  /\ Requestable(3) /\ ~HasFailed(3)
  /\ success_time_next(trk[list[3]]) > failed_time_next(trk[list[2]])
  /\ last.ret = 2

C2_Result ==
  last.op = "find_next_to_request" =>
    LET c == FirstRequestable(last.n)
    IN  /\ (last.ret = End(list)) <=> ~(\E i \in last.n .. Len(list) : Requestable(i))
        /\ last.ret # End(list) => (last.ret >= last.n /\ Requestable(last.ret))
        /\ (c # End(list) /\ ~HasFailed(c)) => last.ret = c

\* C2: find_next_to_request returns end() exactly when nothing at or after the
\* start position is usable and can_request_state; otherwise the result
\* satisfies both, and a first such tracker without failures is the result.
\* The call changes neither the order of the list nor any tracker.
C2_FindReturnsRequestable ==
  /\ []C2_Result
  /\ [][last'.op = "find_next_to_request" => (list' = list /\ trk' = trk)]_vars

\* A search that skips trackers and returns a clean first candidate, and one
\* that finds nothing.
C2_Witness ==
  /\ last.op = "find_next_to_request" /\ last.n = 1 /\ Len(list) = 3
  /\ ~Requestable(1) /\ Requestable(2) /\ ~HasFailed(2) /\ last.ret = 2

C2_WitnessEnd ==
  /\ last.op = "find_next_to_request" /\ Len(list) = 3
  /\ last.ret = End(list)

----------------------------------------------------------------------------
(* Backoff: one tracker that fails again and again while the clock runs.   *)

TypeOfId(t) == IF t % 3 = 1 THEN "http" ELSE IF t % 3 = 2 THEN "udp" ELSE "dht"

\* The trackers as constructed: HTTP trackers can scrape.
NewTrackers ==
  [t \in TrackerIds |->
     Tracker(TypeOfId(t), IF TypeOfId(t) = "http" THEN {"can_scrape"} ELSE {})]

BackoffClock == {100, 101, 150, 1000}

InitBackoff ==
  /\ cachedTime = 100
  /\ protocol_enabled = [type \in TrackerTypes |-> TRUE]
  /\ trk = NewTrackers
  /\ list = <<1>>
  /\ calls = <<>>
  /\ last = NoCall
  /\ DnsManager

NextBackoff ==
  \/ trk[1].failed_counter < MaxFailed /\ ReceiveFailed(1)
  \/ trk[1].success_counter = 0 /\ ReceiveSuccess(1, <<>>, 0)
  \/ ClearStats
  \/ \E now \in BackoffClock : Tick(now)

SpecBackoff == InitBackoff /\ [][NextBackoff]_vars

\* The retry delays after 1, 2, ..., 7 consecutive failures.
BackoffDelay == <<5, 10, 20, 40, 80, 160, 320>>

\* C5: failed_time_next() is 0 without failures and otherwise
\* failed_time_last plus 5, 10, 20, 40, 80, 160, 320 seconds for 1..7
\* failures and 320 for every later one; 3 failures at time 100 give 120.
C5_FailedTimeNext ==
  \A t \in TrackerIds :
    /\ trk[t].failed_counter = 0 => failed_time_next(trk[t]) = 0
    /\ trk[t].failed_counter > 0 =>
         failed_time_next(trk[t]) =
           trk[t].failed_time_last + BackoffDelay[Min(trk[t].failed_counter, 7)]
    /\ (trk[t].failed_counter = 3 /\ trk[t].failed_time_last = 100) =>
         failed_time_next(trk[t]) = 120

\* The tracker has failed more often than the cap and waits 320 seconds.
C5_Witness ==
  /\ trk[1].failed_counter = 9
  /\ failed_time_next(trk[1]) = trk[1].failed_time_last + 320

C5_WitnessExample ==
  /\ trk[1].failed_counter = 3 /\ trk[1].failed_time_last = 100
  /\ failed_time_next(trk[1]) = 120

\* The backoff increment of a tracker.
Increment(tr) == failed_time_next(tr) - tr.failed_time_last

\* A step in which receive_failed records a failure of a tracker that had
\* failed before: the next failure of a run of consecutive failures.
NextFailure(t) ==
  /\ last'.op = "receive_failed" /\ last'.t = t /\ ~last'.threw
  /\ trk[t].failed_counter > 0
  /\ trk'[t].failed_counter = trk[t].failed_counter + 1

\* C6 as stated: failed_time_next never decreases from one failure to the
\* next, and the increment after the 7th consecutive failure equals the
\* increment after the 6th.
C6_Original ==
  [][\A t \in TrackerIds : NextFailure(t) =>
       /\ failed_time_next(trk'[t]) >= failed_time_next(trk[t])
       /\ trk'[t].failed_counter = 7 => Increment(trk'[t]) = Increment(trk[t])]_vars

\* C6, amended: failed_time_next never decreases from one failure to the
\* next; the increment after the 7th consecutive failure (320) is twice the
\* increment after the 6th (160), and from the 8th failure on the increment
\* equals that of the failure before.
C6_BackoffMonotone ==
  [][\A t \in TrackerIds : NextFailure(t) =>
       /\ failed_time_next(trk'[t]) >= failed_time_next(trk[t])
       /\ trk'[t].failed_counter = 7 =>
            (Increment(trk'[t]) = 320 /\ Increment(trk[t]) = 160)
       /\ trk'[t].failed_counter >= 8 => Increment(trk'[t]) = Increment(trk[t])]_vars

\* The 8th consecutive failure has been recorded, later than the 7th.
C6_Witness ==
  /\ last.op = "receive_failed" /\ last.t = 1 /\ ~last.threw
  /\ trk[1].failed_counter = 8
  /\ trk[1].failed_time_last > 100

----------------------------------------------------------------------------
(* Request throttle: inc_request_counter() called on one tracker while     *)
(* the clock runs; calls records the time and the outcome of every call.   *)

InitThrottle ==
  /\ cachedTime = StartTime
  /\ protocol_enabled = [type \in TrackerTypes |-> TRUE]
  /\ trk = NewTrackers
  /\ list = <<>>
  /\ calls = <<>>
  /\ last = NoCall
  /\ DnsManager

NextThrottle ==
  \/ Len(calls) < MaxRequests /\ IncRequestCounter(1)
  \/ \E now \in (StartTime + 1) .. (StartTime + MaxElapsed) : Tick(now)

SpecThrottle == InitThrottle /\ [][NextThrottle]_vars

\* Calls first .. first + 9 are ten calls made within span seconds.
TenCallsWithin(first, span) ==
  /\ first >= 1 /\ first + 9 <= Len(calls)
  /\ calls[first + 9].time - calls[first].time <= span

\* C7 as stated: ten calls within a span of 10 seconds, at any spacing, raise
\* the fatal error no later than the tenth of them.
C7_Original ==
  \A first \in 1 .. Len(calls) :
    TenCallsWithin(first, 10) => \E k \in 1 .. (first + 9) : calls[k].threw

\* C7, amended: ten calls within one second of the clock (no second passes
\* between the first and the tenth) raise the fatal error at the tenth call
\* at the latest; the tenth call itself raises it.
C7_TenCallsInOneSecond ==
  \A first \in 1 .. Len(calls) :
    TenCallsWithin(first, 0) => calls[first + 9].threw

\* Ten calls in one second, the tenth raising the error.
C7_Witness ==
  /\ Len(calls) = 10
  /\ TenCallsWithin(1, 0)
  /\ calls[10].threw
  /\ last.op = "inc_request_counter" /\ last.threw

NoCallThrew == \A k \in 1 .. Len(calls) : ~calls[k].threw

\* C8: while no call raises the error, the calls made in any window of T
\* seconds number at most T + 9, and request_counter is at most 9 after
\* every call that returns normally.
C8_RequestRate ==
  /\ NoCallThrew =>
       \A i \in 1 .. Len(calls) : \A j \in i .. Len(calls) :
         j - i + 1 <= (calls[j].time - calls[i].time) + 9
  /\ (last.op = "inc_request_counter" /\ ~last.threw) =>
       trk[last.t].request_counter <= 9

\* Eleven calls without an error, T + 9 of them in a window of T = 2 seconds.
C8_Witness ==
  /\ NoCallThrew
  /\ Len(calls) = 11
  /\ calls[11].time - calls[1].time = 2
  /\ trk[1].request_counter = 9

----------------------------------------------------------------------------
(* Dispatch: announces and scrapes sent to one tracker of the list, their  *)
(* completion, status changes and the clock.  The tracker's variant, its   *)
(* scrape capability and its variant-level usability are fixed when the    *)
(* run starts; the DHT protocol is globally disabled.                      *)

SendEvents == {"NONE", "STARTED", "SCRAPE"}

EnabledStatus == {"on", "off", "undefined"}

SendClock == {StartTime + 120, StartTime + 599, StartTime + 600, StartTime + 601}

InitSend ==
  /\ cachedTime = StartTime
  /\ protocol_enabled = [type \in TrackerTypes |-> type # "dht"]
  /\ \E type \in {"http", "dht"}, flags \in {{}, {"can_scrape"}}, usable \in BOOLEAN :
       trk = [NewTrackers EXCEPT
                ![1] = [Tracker(type, flags) EXCEPT !.usable = usable]]
  /\ list = <<1>>
  /\ calls = <<>>
  /\ last = NoCall
  /\ DnsManager

NextSend ==
  \/ \E new_event \in SendEvents :
       trk[1].request_counter < MaxBurst /\ SendState(1, new_event)
  \/ trk[1].request_counter < MaxBurst /\ SendScrape(1)
  \/ RequestDone(1)
  \/ trk[1].scrape_counter < MaxScrapes /\ ReceiveScrapeSuccess(1)
  \/ \E enabled_status \in EnabledStatus : SetEnabledStatus(1, enabled_status)
  \/ \E now \in SendClock : Tick(now)

SpecSend == InitSend /\ [][NextSend]_vars

\* What inc_request_counter makes of the counter of tr at the current time.
Bumped(tr) ==
  tr.request_counter - Min(tr.request_counter, cachedTime - tr.request_time_last) + 1

\* C9: send_state dispatches nothing and leaves the tracker and its request
\* counter alone when the tracker is not usable, the event is SCRAPE or the
\* tracker is busy with something other than a scrape; otherwise it closes a
\* scrape in flight, invokes the tracker's send_state once and bumps the
\* request counter once.
C9_SendState ==
  [][last'.op = "send_state" =>
       LET pre == trk[last'.t]
           post == trk'[last'.t]
           nothing == \/ ~is_usable(pre)
                      \/ last'.event = "SCRAPE"
                      \/ pre.busy /\ pre.latest_event # "SCRAPE"
       IN  /\ nothing =>
                /\ post = pre
                /\ last'.sends = 0 /\ last'.closes = 0 /\ last'.incs = 0
           /\ ~nothing =>
                /\ last'.sends = 1 /\ last'.incs = 1 /\ last'.scrapes = 0
                /\ last'.closes = (IF pre.busy THEN 1 ELSE 0)
                /\ post.busy /\ post.latest_event = last'.event
                /\ post.request_counter = Bumped(pre)
                /\ post.request_time_last = cachedTime]_vars

\* An announce dispatched over a scrape in flight.
C9_Witness ==
  /\ last.op = "send_state" /\ last.event = "STARTED"
  /\ last.closes = 1 /\ last.sends = 1 /\ last.incs = 1
  /\ trk[1].busy /\ trk[1].latest_event = "STARTED"

\* C10: send_scrape does nothing when the tracker is busy, not usable, lacks
\* flag_can_scrape or scraped less than 600 seconds ago; otherwise it
\* dispatches the scrape and bumps the request counter once.  120 seconds
\* after a scrape it does nothing, 601 seconds after it dispatches.
C10_SendScrape ==
  [][last'.op = "send_scrape" =>
       LET pre == trk[last'.t]
           post == trk'[last'.t]
           elapsed == cachedTime - pre.scrape_time_last
           nothing == \/ pre.busy
                      \/ ~is_usable(pre)
                      \/ ~flag_can_scrape(pre)
                      \/ elapsed < 600
       IN  /\ nothing =>
                /\ post = pre
                /\ last'.scrapes = 0 /\ last'.incs = 0
           /\ ~nothing =>
                /\ last'.scrapes = 1 /\ last'.incs = 1 /\ last'.sends = 0
                /\ post.busy /\ post.latest_event = "SCRAPE"
                /\ post.request_counter = Bumped(pre)
           /\ elapsed = 120 => last'.scrapes = 0
           /\ (elapsed = 601 /\ ~pre.busy /\ is_usable(pre) /\ flag_can_scrape(pre)) =>
                last'.scrapes = 1]_vars

\* A scrape dispatched 601 seconds after the last one.
C10_Witness ==
  /\ last.op = "send_scrape" /\ last.scrapes = 1 /\ last.incs = 1
  /\ trk[1].scrape_counter = 1
  /\ cachedTime - trk[1].scrape_time_last = 601

\* A scrape held back 120 seconds after the last one.
C10_WitnessBlocked ==
  /\ last.op = "send_scrape" /\ last.scrapes = 0
  /\ ~trk[1].busy /\ is_usable(trk[1]) /\ flag_can_scrape(trk[1])
  /\ cachedTime - trk[1].scrape_time_last = 120

----------------------------------------------------------------------------
(* The list: HTTP trackers inserted into groups, reordered by promote,     *)
(* cycle_group and randomize_group_entries, and reporting results.         *)

\* The URLs given to insert_url: "http://a" and "ftp://a".
ListUrls ==
  { <<"h", "t", "t", "p", ":", "/", "/", "a">>,
    <<"f", "t", "p", ":", "/", "/", "a">> }

Init ==
  /\ cachedTime = StartTime
  /\ protocol_enabled = [type \in TrackerTypes |-> TRUE]
  /\ trk = [t \in TrackerIds |-> Tracker("http", {"can_scrape"})]
  /\ list = <<>>
  /\ calls = <<>>
  /\ last = NoCall
  /\ DnsManager

Next ==
  \/ \E group \in Groups, t \in TrackerIds : Insert(group, t)
  \/ \E group \in Groups, url \in ListUrls, t \in TrackerIds :
       InsertUrl(group, url, FALSE, TRUE, t)
  \/ \E itr \in TrackerIds : Promote(itr)
  \/ \E group \in Groups : CycleGroup(group)
  \/ RandomizeGroupEntries
  \/ \E t \in TrackerIds :
       trk[t].success_counter < MaxCount /\ ReceiveSuccess(t, <<2, 1, 2>>, 1)
  \/ \E t \in TrackerIds : trk[t].failed_counter < MaxCount /\ ReceiveFailed(t)
  \/ \E t \in TrackerIds :
       trk[t].scrape_counter < MaxCount /\ ReceiveScrapeSuccess(t)
  \/ \E t \in TrackerIds : ReceiveScrapeFailed(t)

Spec == Init /\ [][Next]_vars

\* Position i is the first position of its group.
FirstOfGroup(i) == \A j \in 1 .. (i - 1) : group_at(list, trk, j) # group_at(list, trk, i)

\* C3: after receive_success(t, l) has returned, t is a member, the first
\* entry of its group, and its failed_counter is 0.
C3_SuccessPromotes ==
  (last.op = "receive_success" /\ ~last.threw) =>
    /\ find(list, last.t) # End(list)
    /\ FirstOfGroup(find(list, last.t))
    /\ trk[last.t].failed_counter = 0

\* The last of three trackers of group 0 fails, then succeeds.
C3_Witness ==
  /\ last.op = "receive_success" /\ ~last.threw /\ last.t = 3
  /\ list = <<3, 2, 1>>
  /\ \A i \in 1 .. 3 : group_at(list, trk, i) = 0
  /\ trk[3].failed_time_last = StartTime /\ trk[3].failed_counter = 0

\* C4: the list is sorted by group.
C4_SortedByGroup ==
  \A i \in 1 .. Len(list) : \A j \in i .. Len(list) :
    group_at(list, trk, i) <= group_at(list, trk, j)

\* Two groups, and a tracker of the second group promoted to its front.
C4_Witness ==
  /\ last.op = "receive_success" /\ ~last.threw
  /\ Len(list) = 3
  /\ group_at(list, trk, 1) = 0 /\ group_at(list, trk, 2) = 1
  /\ group_at(list, trk, 3) = 1
  /\ list[2] = last.t /\ list[2] > list[3]

----------------------------------------------------------------------------
(* Results: the four receive_* handlers called for members that are idle   *)
(* or have an announce in flight and for a tracker that is not a member.   *)
(* A tracker with an announce in flight is what send_state leaves.         *)

ReceiveOps ==
  {"receive_success", "receive_failed", "receive_scrape_success",
   "receive_scrape_failed"}

\* The user callback each handler invokes.
ReceiveSlot ==
  [ receive_success |-> "success", receive_failed |-> "failed",
    receive_scrape_success |-> "scrape_success",
    receive_scrape_failed |-> "scrape_failed" ]

InitReceive ==
  /\ cachedTime = StartTime
  /\ protocol_enabled = [type \in TrackerTypes |-> TRUE]
  /\ trk \in [TrackerIds ->
                { Tracker("http", {"can_scrape"}),
                  send_state(Tracker("http", {"can_scrape"}), "STARTED").tr }]
  /\ list = [i \in 1 .. (NumTrackers - 1) |-> i]
  /\ calls = <<>>
  /\ last = NoCall
  /\ DnsManager

NextReceive ==
  \/ \E t \in TrackerIds :
       trk[t].success_counter < MaxCount /\ ReceiveSuccess(t, <<1>>, 1)
  \/ \E t \in TrackerIds : trk[t].failed_counter < MaxReceived /\ ReceiveFailed(t)
  \/ \E t \in TrackerIds :
       trk[t].scrape_counter < MaxCount /\ ReceiveScrapeSuccess(t)
  \/ \E t \in TrackerIds : ReceiveScrapeFailed(t)
  \/ \E t \in TrackerIds : RequestDone(t)
  \/ Tick(StartTime + 1)

SpecReceive == InitReceive /\ [][NextReceive]_vars

\* C11: a receive_* handler called for a tracker that is not a member or is
\* busy raises the internal error, leaves the list order and every tracker
\* field as they were and invokes no user callback; called for an idle
\* member it raises nothing and invokes its callback.
C11_ReceivePrecondition ==
  [][last'.op \in ReceiveOps =>
       IF find(list, last'.t) = End(list) \/ trk[last'.t].busy
         THEN /\ last'.threw
              /\ list' = list /\ trk' = trk
              /\ last'.slot = "none"
         ELSE /\ ~last'.threw
              /\ last'.slot = ReceiveSlot[last'.op]]_vars

\* receive_success refused for a busy member that is not first in the list.
C11_Witness ==
  /\ last.op = "receive_success" /\ last.threw
  /\ find(list, last.t) \in 2 .. Len(list)
  /\ trk[last.t].busy

\* receive_failed refused for the tracker that is not a member.
C11_WitnessNotMember ==
  /\ last.op = "receive_failed" /\ last.threw
  /\ find(list, last.t) = End(list) /\ ~trk[last.t].busy

\* C12: after a receive_failed that passes its precondition the tracker's
\* failed_counter is one more than before, hence positive, its
\* failed_time_last is the current time, its success_counter and every
\* position of the list are as before.
C12_ReceiveFailed ==
  [][(last'.op = "receive_failed" /\ ~last'.threw) =>
       LET pre == trk[last'.t]
           post == trk'[last'.t]
       IN  /\ post.failed_counter = pre.failed_counter + 1
           /\ post.failed_counter > 0
           /\ post.failed_time_last = cachedTime
           /\ post.success_counter = pre.success_counter
           /\ list' = list
           /\ find(list', last'.t) = find(list, last'.t)]_vars

\* A second failure in a row, later than a success, of a tracker that is not
\* first in the list.
C12_Witness ==
  /\ last.op = "receive_failed" /\ ~last.threw
  /\ find(list, last.t) \in 2 .. Len(list)
  /\ trk[last.t].failed_counter = 2
  /\ trk[last.t].success_counter = 1
  /\ trk[last.t].failed_time_last = StartTime + 1
  /\ trk[last.t].success_time_last = StartTime

----------------------------------------------------------------------------
(* Insertion: trackers of the three variants inserted into groups, by      *)
(* insert and by insert_url, with the UDP protocol globally disabled and   *)
(* enabled statuses set before and after insertion; promote reorders the   *)
(* groups in between.                                                      *)

\* The URLs given to insert_url: "http://a", "udp://b" and "ftp://a".
InsertUrls ==
  { <<"h", "t", "t", "p", ":", "/", "/", "a">>,
    <<"u", "d", "p", ":", "/", "/", "b">>,
    <<"f", "t", "p", ":", "/", "/", "a">> }

InitInsert ==
  /\ cachedTime = StartTime
  /\ protocol_enabled = [type \in TrackerTypes |-> type # "udp"]
  /\ trk = NewTrackers
  /\ list = <<>>
  /\ calls = <<>>
  /\ last = NoCall
  /\ DnsManager

NextInsert ==
  \/ \E group \in Groups, t \in TrackerIds : Insert(group, t)
  \/ \E group \in Groups, url \in InsertUrls, t \in TrackerIds :
       InsertUrl(group, url, FALSE, TRUE, t)
  \/ \E t \in TrackerIds, enabled_status \in EnabledStatus :
       SetEnabledStatus(t, enabled_status)
  \/ \E itr \in TrackerIds : Promote(itr)

SpecInsert == InitInsert /\ [][NextInsert]_vars

\* The latest call inserted tracker last.t into group last.n.
Inserted(call) == call.op \in {"insert", "insert_url"} /\ call.t # 0

\* C18: insert(group, tracker) sets the tracker's group and places it after
\* every entry of a group up to its own, right behind the last entry of its
\* group when there is one, and before every entry of a higher group; the
\* other trackers keep their order and their fields.  Groups 0, 1, 0
\* inserted in that order give the group sequence 0, 0, 1.
C18_InsertPlacement ==
  [][Inserted(last') =>
       LET t == last'.t
           group == last'.n
           pos == find(list', t)
       IN  /\ trk'[t].group = group
           /\ pos = last'.ret /\ pos # End(list')
           /\ Len(list') = Len(list) + 1
           /\ list = SubSeq(list', 1, pos - 1) \o SubSeq(list', pos + 1, Len(list'))
           /\ \A u \in TrackerIds \ {t} : trk'[u] = trk[u]
           /\ \A i \in 1 .. (pos - 1) : group_at(list', trk', i) <= group
           /\ \A i \in (pos + 1) .. Len(list') : group_at(list', trk', i) > group
           /\ (\E i \in 1 .. Len(list) : group_at(list, trk, i) = group) =>
                (pos > 1 /\ group_at(list', trk', pos - 1) = group)]_vars

\* Trackers 1, 2 and 3 inserted into groups 0, 1 and 0.
C18_Witness ==
  /\ last.op = "insert" /\ last.t = 3 /\ last.n = 0
  /\ list = <<1, 3, 2>>
  /\ trk[1].group = 0 /\ trk[3].group = 0 /\ trk[2].group = 1

\* The tracker counts as enabled: status ON, or UNDEFINED with its protocol
\* globally enabled.
CurrentlyEnabled(tr) ==
  \/ tr.enabled_status = "on"
  \/ tr.enabled_status = "undefined" /\ is_protocol_enabled(tr.type)

\* C19 as stated: insert fires the tracker-enabled callback exactly for a
\* tracker that is currently enabled.
C19_Original ==
  Inserted(last) =>
    (last.slot = "tracker_enabled" <=> CurrentlyEnabled(trk[last.t]))

\* The tracker-enabled callback fired for a UDP tracker built by insert_url
\* while the UDP protocol is disabled.
C19_Witness ==
  /\ last.op = "insert_url" /\ last.slot = "tracker_enabled"
  /\ trk[last.t].type = "udp" /\ trk[last.t].enabled_status = "undefined"
  /\ ~is_protocol_enabled("udp")
  /\ find(list, last.t) # End(list)

\* The groups that have a tracker in the list.
GroupsPresent == { group_at(list, trk, i) : i \in 1 .. Len(list) }

\* C20 as stated: the groups present are 0 .. size_group() - 1.
C20_Original == GroupsPresent = 0 .. (size_group(list, trk) - 1)

\* C20: size_group() is 0 for the empty list and otherwise one more than the
\* highest group present, which is the group of the last entry; it is at
\* least the number of groups present, and equal to it exactly when no group
\* below the highest is empty.
C20_SizeGroup ==
  /\ list = <<>> => size_group(list, trk) = 0
  /\ list # <<>> =>
       /\ size_group(list, trk) = group_at(list, trk, Len(list)) + 1
       /\ \A group \in GroupsPresent : group < size_group(list, trk)
       /\ size_group(list, trk) - 1 \in GroupsPresent
  /\ Cardinality(GroupsPresent) <= size_group(list, trk)
  /\ Cardinality(GroupsPresent) = size_group(list, trk)
       <=> GroupsPresent = 0 .. (size_group(list, trk) - 1)

\* Two trackers in group 1 and none in group 0: size_group() is 2 with one
\* group present.
C20_Witness ==
  /\ Inserted(last)
  /\ Len(list) = 2
  /\ GroupsPresent = {1}
  /\ size_group(list, trk) = 2

----------------------------------------------------------------------------
(* URLs: insert_url called with well-formed and malformed URLs, as         *)
(* announce and as extra trackers, with DHT allowed and not allowed.       *)

UrlHttp == <<"h", "t", "t", "p", ":", "/", "/", "a">>
UrlHttps == <<"h", "t", "t", "p", "s", ":", "/", "/", "a">>
UrlUdp == <<"u", "d", "p", ":", "/", "/", "b">>
UrlDht == <<"d", "h", "t", ":", "/", "/">>
UrlFtp == <<"f", "t", "p", ":", "/", "/", "a">>
UrlOneSlash == <<"h", "t", "t", "p", ":", "/", "a">>
UrlUpperCase == <<"H", "T", "T", "P", ":", "/", "/", "a">>
UrlShort == <<"u", "d", "p">>

Urls ==
  {UrlHttp, UrlHttps, UrlUdp, UrlDht, UrlFtp, UrlOneSlash, UrlUpperCase, UrlShort}

InitUrl ==
  /\ cachedTime = StartTime
  /\ protocol_enabled = [type \in TrackerTypes |-> TRUE]
  /\ trk = NewTrackers
  /\ list = <<>>
  /\ calls = <<>>
  /\ last = NoCall
  /\ DnsManager

NextUrl ==
  \E group \in Groups, url \in Urls, extra_tracker \in BOOLEAN,
     dht_allowed \in BOOLEAN, t \in TrackerIds :
    InsertUrl(group, url, extra_tracker, dht_allowed, t)

SpecUrl == InitUrl /\ [][NextUrl]_vars

\* The variant the URL selects by its literal prefix, "none" when it selects
\* none.
UrlVariant(url, dht_allowed) ==
  CASE url \in {UrlHttp, UrlHttps} -> "http"
    [] url = UrlUdp -> "udp"
    [] url = UrlDht -> IF dht_allowed THEN "dht" ELSE "none"
    [] OTHER -> "none"

\* C21: insert_url adds one tracker of the variant its URL selects, in the
\* group given; for a URL that selects none, a dht:// URL while DHT is not
\* allowed included, it leaves the list and the trackers as they were and
\* fires no callback, raising invalid-argument exactly when the URL is an
\* extra tracker.
C21_InsertUrl ==
  [][last'.op = "insert_url" =>
       LET variant == UrlVariant(last'.url, last'.dht_allowed)
           t == last'.t
       IN  IF variant # "none"
             THEN /\ ~last'.threw
                  /\ t # 0 /\ find(list, t) = End(list) /\ find(list', t) # End(list')
                  /\ Len(list') = Len(list) + 1
                  /\ \A i \in 1 .. Len(list) : find(list', list[i]) # End(list')
                  /\ trk'[t].type = variant
                  /\ trk'[t].group = last'.n
                  /\ ("extra_tracker" \in trk'[t].flags) = last'.extra_tracker
                  /\ \A u \in TrackerIds \ {t} : trk'[u] = trk[u]
             ELSE /\ list' = list /\ trk' = trk
                  /\ last'.slot = "none"
                  /\ last'.threw = last'.extra_tracker]_vars

\* An https:// URL added as an extra tracker behind a udp:// tracker.
C21_Witness ==
  /\ last.op = "insert_url" /\ last.url = UrlHttps /\ last.extra_tracker
  /\ Len(list) = 2
  /\ trk[list[1]].type = "udp" /\ trk[list[2]].type = "http"
  /\ "extra_tracker" \in trk[list[2]].flags

\* A dht:// URL refused as an extra tracker while DHT is not allowed.
C21_WitnessRefused ==
  /\ last.op = "insert_url" /\ last.url = UrlDht /\ ~last.dht_allowed
  /\ last.threw /\ last.slot = "none"
  /\ Len(list) = 1

----------------------------------------------------------------------------
(* Claims about the enabled status, checked on the dispatch runs *)

\* C22: set_enabled_status(new) changes nothing, closes nothing and fires no
\* callback when new is the current status; otherwise it records new and
\* closes the tracker exactly when new is OFF or when new is UNDEFINED and
\* takes the tracker from enabled to disabled; the enabled callback fires
\* exactly when the tracker goes from disabled to enabled, the disabled
\* callback exactly when it goes from enabled to disabled.
C22_SetEnabledStatus ==
  [][last'.op = "set_enabled_status" =>
       LET pre == trk[last'.t]
           post == trk'[last'.t]
           new == last'.enabled_status
           was == CurrentlyEnabled(pre)
           is == CurrentlyEnabled([pre EXCEPT !.enabled_status = new])
           closed == new = "off" \/ (new = "undefined" /\ was /\ ~is)
       IN  IF new = pre.enabled_status
             THEN post = pre /\ last'.closes = 0 /\ last'.slot = "none"
             ELSE /\ post = [pre EXCEPT !.enabled_status = new,
                                        !.busy = IF closed THEN FALSE ELSE @]
                  /\ last'.closes = (IF closed THEN 1 ELSE 0)
                  /\ (last'.slot = "tracker_enabled") = (~was /\ is)
                  /\ (last'.slot = "tracker_disabled") = (was /\ ~is)
                  /\ (last'.slot = "none") = (was = is)]_vars

\* A DHT tracker switched ON announces and is put back to UNDEFINED while
\* the DHT protocol is disabled: closed by the list, disabled callback.
C22_Witness ==
  /\ last.op = "set_enabled_status" /\ last.enabled_status = "undefined"
  /\ last.closes = 1 /\ last.slot = "tracker_disabled"
  /\ trk[1].type = "dht" /\ ~is_protocol_enabled("dht")
  /\ trk[1].latest_event = "STARTED" /\ ~trk[1].busy

\* OFF to UNDEFINED with the protocol enabled: enabled callback, no close.
C22_WitnessEnabled ==
  /\ last.op = "set_enabled_status" /\ last.enabled_status = "undefined"
  /\ last.closes = 0 /\ last.slot = "tracker_enabled"
  /\ trk[1].type = "http"

\* C28: with the per-protocol enablement fixed, no tracker is busy while it
\* is disabled (OFF, or UNDEFINED with its protocol disabled): a tracker
\* becomes disabled only through set_enabled_status, which leaves it closed,
\* and send_state and send_scrape dispatch only to an enabled tracker.
C28_NoBusyWhileDisabled ==
  /\ [](\A t \in TrackerIds : ~CurrentlyEnabled(trk[t]) => ~is_busy(trk[t]))
  /\ [][\A t \in TrackerIds :
          (CurrentlyEnabled(trk[t]) /\ ~CurrentlyEnabled(trk'[t])) =>
            /\ last'.op = "set_enabled_status" /\ last'.t = t
            /\ ~is_busy(trk'[t])
            /\ is_busy(trk[t]) => last'.closes = 1]_vars
  /\ [][(last'.op \in {"send_state", "send_scrape"}
           /\ last'.sends + last'.scrapes > 0) =>
          /\ CurrentlyEnabled(trk[last'.t])
          /\ CurrentlyEnabled(trk'[last'.t])]_vars
  /\ [][protocol_enabled' = protocol_enabled]_vars

\* A scrape in flight is closed by switching the tracker OFF.
C28_Witness ==
  /\ last.op = "set_enabled_status" /\ last.enabled_status = "off"
  /\ last.closes = 1 /\ last.slot = "tracker_disabled"
  /\ trk[1].latest_event = "SCRAPE" /\ trk[1].request_counter > 0
  /\ ~is_busy(trk[1])

\* An announce asked of a DHT tracker left UNDEFINED while DHT is disabled:
\* nothing is dispatched.
C28_WitnessNotSent ==
  /\ last.op = "send_state" /\ last.event = "STARTED" /\ last.sends = 0
  /\ trk[1].type = "dht" /\ trk[1].enabled_status = "undefined"
  /\ tracker_is_usable(trk[1]) /\ ~is_busy(trk[1])

----------------------------------------------------------------------------
(* Claims about requests in flight, checked on the dispatch runs *)

\* The requests of a tracker in flight: the variant is busy with one or idle.
InFlight(tr) == IF is_busy(tr) THEN 1 ELSE 0

\* C25: a tracker never has more than one request in flight: send_state and
\* send_scrape dispatch at most one request, and only to a tracker that is
\* not busy or, for send_state, whose scrape in flight the call has closed;
\* a call that finds an announce in flight changes nothing.
C25_OneInFlight ==
  [][last'.op \in {"send_state", "send_scrape"} =>
       LET pre == trk[last'.t]
           post == trk'[last'.t]
           dispatched == last'.sends + last'.scrapes
       IN  /\ dispatched <= 1
           /\ InFlight(pre) - last'.closes + dispatched <= 1
           /\ InFlight(post) = InFlight(pre) - last'.closes + dispatched
           /\ dispatched = 1 =>
                \/ ~is_busy(pre) /\ last'.closes = 0
                \/ /\ last'.op = "send_state" /\ last'.closes = 1
                   /\ is_busy(pre) /\ pre.latest_event = "SCRAPE"
           /\ (is_busy(pre) /\ pre.latest_event # "SCRAPE") =>
                post = pre /\ dispatched = 0 /\ last'.closes = 0]_vars

\* A second announce asked for while the first is in flight: nothing sent.
C25_Witness ==
  /\ last.op = "send_state" /\ last.event = "NONE"
  /\ last.sends = 0 /\ last.closes = 0
  /\ is_usable(trk[1]) /\ trk[1].busy /\ trk[1].latest_event = "STARTED"

\* A scrape asked for while an announce is in flight: nothing sent.
C25_WitnessScrape ==
  /\ last.op = "send_scrape" /\ last.scrapes = 0 /\ last.closes = 0
  /\ is_usable(trk[1]) /\ flag_can_scrape(trk[1])
  /\ cachedTime - trk[1].scrape_time_last >= 600
  /\ trk[1].busy /\ trk[1].latest_event = "STARTED"

----------------------------------------------------------------------------
(* Claims about the order of the list, checked on the list runs *)

\* The positions of L holding a tracker of the group.
GroupPositions(L, group) == {i \in 1 .. Len(L) : group_at(L, trk, i) = group}

\* cycle_group(group) applied n times.
RECURSIVE CycleTimes(_, _, _)
CycleTimes(L, group, n) ==
  IF n = 0 THEN L ELSE CycleTimes(cycle_group(L, trk, group), group, n - 1)

\* C23: cycle_group(g) moves the first tracker of g to the last position of
\* g and every other tracker of g one position towards the front, leaves the
\* trackers of other groups where they are, changes nothing when no tracker
\* has group g, and applied as many times as g has trackers restores the
\* order.
C23_CycleGroup ==
  [][last'.op = "cycle_group" =>
       LET g == last'.n
           P == GroupPositions(list, g)
           first == CHOOSE i \in P : \A j \in P : i <= j
           final == CHOOSE i \in P : \A j \in P : j <= i
       IN  /\ Len(list') = Len(list)
           /\ \A i \in (1 .. Len(list)) \ P : list'[i] = list[i]
           /\ P = {} => list' = list
           /\ P # {} =>
                /\ list'[final] = list[first]
                /\ \A i \in P \ {first} : list'[i - 1] = list[i]
           /\ CycleTimes(list, g, Cardinality(P)) = list]_vars

\* Group 0 holds 1, 2, 3 in insertion order and is cycled once.
C23_Witness ==
  /\ last.op = "cycle_group" /\ last.n = 0
  /\ list = <<2, 3, 1>>
  /\ \A i \in 1 .. 3 : group_at(list, trk, i) = 0

\* cycle_group of a group no tracker has, on a list that is not empty.
C23_WitnessNoGroup ==
  /\ last.op = "cycle_group" /\ last.n = 1
  /\ Len(list) = 2 /\ GroupPositions(list, 1) = {}

\* The operations that reorder the list or report a result.
Reordering ==
  {"promote", "cycle_group", "randomize_group_entries", "receive_success",
   "receive_failed", "receive_scrape_success", "receive_scrape_failed"}

\* The trackers of L, and whether every group of L is one contiguous run.
Members(L) == {L[i] : i \in 1 .. Len(L)}

ContiguousGroups(L, T) ==
  \A i \in 1 .. Len(L) : \A j \in i .. Len(L) :
    group_at(L, T, i) = group_at(L, T, j) =>
      \A k \in i .. j : group_at(L, T, k) = group_at(L, T, i)

\* C27: promote, cycle_group, randomize_group_entries and the receive_*
\* operations only permute the list: the same trackers, each once, every
\* group field unchanged, every group still one contiguous run at the
\* positions it had; receive_success moves at most two trackers, swapping the
\* reporting tracker with the former first entry of its group.
C27_OnlyPermutes ==
  [][last'.op \in Reordering =>
       /\ Len(list') = Len(list)
       /\ Members(list') = Members(list)
       /\ Cardinality(Members(list')) = Len(list')
       /\ \A t \in TrackerIds : trk'[t].group = trk[t].group
       /\ ContiguousGroups(list', trk')
       /\ \A i \in 1 .. Len(list) :
            group_at(list', trk', i) = group_at(list, trk, i)
       /\ (last'.op = "receive_success" /\ ~last'.threw) =>
            LET itr == find(list, last'.t)
                first == begin_group(list, trk, group_at(list, trk, itr))
            IN  /\ Cardinality({i \in 1 .. Len(list) : list'[i] # list[i]}) <= 2
                /\ list' = Swap(list, first, itr)
                /\ list'[first] = last'.t /\ list'[itr] = list[first]]_vars

\* The last of three trackers of group 0 is promoted.
C27_Witness ==
  /\ last.op = "promote" /\ last.n = 3 /\ last.ret = 1 /\ ~last.threw
  /\ list = <<3, 2, 1>>
  /\ \A i \in 1 .. 3 : group_at(list, trk, i) = 0

\* The second tracker of group 1 reports success behind a tracker of group 0.
C27_WitnessSuccess ==
  /\ last.op = "receive_success" /\ ~last.threw /\ last.t = 3
  /\ list = <<1, 3, 2>>
  /\ group_at(list, trk, 1) = 0 /\ group_at(list, trk, 2) = 1
  /\ group_at(list, trk, 3) = 1

----------------------------------------------------------------------------
(* The resolver: hosts resolved through DnsManager and through the hook of *)
(* ConnectionManager while the nameserver, the network flag and the cache  *)
(* change.  The lookups answer what they like: an answer may differ from   *)
(* the one before for the same key.                                        *)

\* The inputs a strategy does not read.
AnyAi == [error_code |-> -2, ai_addr |-> Null]
AnyResponse == [len |-> -1, initparse |-> -1, an |-> <<>>]

InitDns ==
  /\ cachedTime = StartTime
  /\ protocol_enabled = [type \in TrackerTypes |-> TRUE]
  /\ trk = [t \in TrackerIds |-> Tracker("http", {"can_scrape"})]
  /\ list = <<>>
  /\ calls = <<>>
  /\ last = NoCall
  /\ DnsManager

NextDns ==
  \/ \E key \in Keys, is_current \in BOOLEAN : \E ai \in GetAddrInfo(key) :
       m_custom_server = Null /\ Resolve(key, is_current, ai, AnyResponse, 0)
  \/ \E key \in Keys, response \in Responses, errno \in Errnos :
       m_custom_server # Null /\ Resolve(key, TRUE, AnyAi, response, errno)
  \/ CacheClear
  \/ \E sa \in ServerAddrs, r \in {0, -1}, null_read \in NullReads :
       ServerSet(sa, r, null_read)
  \/ \E active \in BOOLEAN : NetworkActiveSet(active)

SpecDns == InitDns /\ [][NextDns]_vars

C13_WitnessCleared ==
  /\ last.op = "resolve" /\ last.live = 1 /\ last.error_code = 0
  /\ last.key = Key(1, "AF_INET6", "SOCK_STREAM")
  /\ DOMAIN m_cache = {last.key}
  /\ m_custom_server = Null /\ res_nsaddr # SystemNameserver

\* C14 as stated: resolve returns false without invoking the callback when
\* the resolver is off, and otherwise invokes the callback once and returns
\* true.
C14_Original ==
  last.op = "resolve" =>
    IF ~last.on THEN last.ret = FALSE /\ last.callbacks = 0
    ELSE last.callbacks = 1 /\ last.ret = TRUE

\* A resolve that invoked its callback and returned false.
C14_Witness ==
  /\ last.op = "resolve" /\ last.on /\ ~last.threw
  /\ last.callbacks = 1 /\ last.ret = FALSE

\* A resolve skipped with the network inactive that returned true.
C14_WitnessSkipped ==
  /\ last.op = "resolve" /\ ~last.on
  /\ last.callbacks = 0 /\ last.ret = TRUE

\* C15 as stated: the callback receives a resolved address with error code 0
\* or a null address with a nonzero error code.
C15_Original ==
  (last.op = "resolve" /\ last.callbacks = 1) =>
    (last.sa = Null <=> last.error_code # 0)

\* A null address delivered with error code 0 from the cache.
C15_Witness ==
  /\ last.op = "resolve" /\ last.callbacks = 1 /\ last.live = 0
  /\ last.sa = Null /\ last.error_code = 0

\* C17 as stated: a server_set that returns selects the custom strategy with
\* the nameserver given, port 53 for port 0, or the system strategy for a
\* null address; a non-IPv4 address is refused with invalid-argument and
\* changes nothing; the next live lookup uses the strategy selected.
C17_Original ==
  /\ [][last'.op = "server_set" =>
          IF last'.sa # Null /\ last'.sa.family # "AF_INET"
            THEN /\ last'.threw = "input_error"
                 /\ UNCHANGED <<m_custom_server, res_nsaddr, process>>
            ELSE last'.threw = "none" =>
                   /\ process' = "running"
                   /\ m_custom_server' = last'.sa
                   /\ last'.sa # Null =>
                        res_nsaddr' = [last'.sa EXCEPT
                                         !.port = IF @ = 0 THEN 53 ELSE @]]_vars
  /\ [][(last'.op = "resolve" /\ last'.live = 1) =>
          /\ m_custom_server = Null => last'.trace[1] = "getaddrinfo"
                                         \/ last'.trace[2] = "getaddrinfo"
          /\ m_custom_server # Null => last'.trace[1] = "res_nquery"]_vars

\* server_set(null) ended the process with the custom server still selected.
C17_Witness ==
  /\ last.op = "server_set" /\ last.sa = Null
  /\ process = "crashed"
  /\ m_custom_server = SockAddr("AF_INET", 1, 0)
  /\ res_nsaddr = SystemNameserver

----------------------------------------------------------------------------
(* The custom strategy: both resolve_host_custom functions given every     *)
(* response of up to MaxAnswers answer records.                            *)

NextCustom ==
  \/ \E response \in Responses, errno \in Errnos :
       ResolveHostCustom(response, errno)
  \/ \E response \in Responses, errno \in Errnos :
       CmResolveHostCustom(response, errno)

SpecCustom == InitDns /\ [][NextCustom]_vars

\* The positions of the A records of an answer section.
ARecords(an) ==
  {i \in 1 .. Len(an) : an[i].parserr = 0 /\ an[i].type = "ns_t_a"}

\* The first A record of an answer section that has one.
FirstA(an) == an[CHOOSE i \in ARecords(an) : \A j \in ARecords(an) : i <= j]

\* C24: under the custom strategy the address produced from a response with
\* several A records is the first A record in answer order.
C24_Original ==
  ( /\ last.op = "resolve_host_custom" /\ ~last.threw
    /\ last.response.len > -1 /\ last.response.initparse > -1
    /\ Cardinality(ARecords(last.response.an)) > 1 ) =>
      last.sa = SockAddr("AF_INET", FirstA(last.response.an).rdata, 0)

\* DnsManager's strategy reads the A records 1 and 2, in this order, and
\* produces 2.
C24_Witness ==
  /\ last.op = "resolve_host_custom" /\ last.file = "dns_manager.cc"
  /\ ~last.threw /\ Len(last.response.an) = 2
  /\ ARecords(last.response.an) = {1, 2}
  /\ last.response.an[1].rdata = 1 /\ last.response.an[2].rdata = 2
  /\ last.sa = SockAddr("AF_INET", 2, 0) /\ last.error_code = 0

----------------------------------------------------------------------------
(* The lock: host names resolved on the main thread and on other threads,  *)
(* through DnsManager and through the hook of ConnectionManager, under     *)
(* both strategies.                                                        *)

HostKeys == { Key(host, "AF_INET", "SOCK_STREAM") : host \in Hosts }

NextLock ==
  \/ \E key \in HostKeys, is_current \in BOOLEAN : \E ai \in GetAddrInfo(key) :
       m_custom_server = Null /\ Resolve(key, is_current, ai, AnyResponse, 0)
  \/ \E key \in HostKeys, response \in Responses, errno \in Errnos :
       m_custom_server # Null /\ Resolve(key, TRUE, AnyAi, response, errno)
  \/ \E sa \in ServerAddrs, r \in {0, -1}, null_read \in NullReads :
       ServerSet(sa, r, null_read)
  \/ \E key \in HostKeys, is_current \in BOOLEAN : \E ai \in GetAddrInfo(key) :
       /\ m_slot_resolver = "resolve_host_system"
       /\ SlotResolver(key, is_current, ai, AnyResponse, 0)
  \/ \E key \in HostKeys, response \in Responses, errno \in Errnos :
       /\ m_slot_resolver = "resolve_host_custom"
       /\ SlotResolver(key, TRUE, AnyAi, response, errno)
  \/ \E sa \in ServerAddrs, r \in {0, -1}, null_read \in NullReads :
       DnsServerSet(sa, r, null_read)

SpecLock == InitDns /\ [][NextLock]_vars

\* The number of times e occurs in a trace, and the place of its first
\* occurrence.
Count(trace, e) == Cardinality({i \in DOMAIN trace : trace[i] = e})

At(trace, e) == CHOOSE i \in DOMAIN trace : trace[i] = e

\* Whether the main thread holds the global lock after the trace, holding
\* it before.
RECURSIVE lock_held_after(_, _)
lock_held_after(trace, held) ==
  IF trace = <<>> THEN held
  ELSE lock_held_after(Tail(trace),
                       IF Head(trace) = "release_global_lock" THEN FALSE
                       ELSE IF Head(trace) = "acquire_global_lock" THEN TRUE
                       ELSE held)

\* The latest call made a lookup with the system strategy.
SystemLookup ==
  \/ last.op = "resolve" /\ last.live = 1 /\ ~last.custom
  \/ last.op = "slot_resolver" /\ ~last.custom

\* C16: a system-strategy lookup on the main thread releases the global lock
\* once, before getaddrinfo, and takes it back once, after getaddrinfo,
\* whether the lookup succeeds or fails; the cache insert and the callback
\* come after that and the lock is held at the end.  On another thread the
\* lock is neither released nor acquired.
C16_LockAroundLookup ==
  SystemLookup =>
    LET trace == last.trace
    IN  /\ Count(trace, "getaddrinfo") = 1
        /\ Count(trace, "callback") = 1
        /\ last.op = "resolve" => Count(trace, "cache_add") = 1
        /\ IF last.is_current
             THEN /\ Count(trace, "release_global_lock") = 1
                  /\ Count(trace, "acquire_global_lock") = 1
                  /\ At(trace, "release_global_lock") < At(trace, "getaddrinfo")
                  /\ At(trace, "getaddrinfo") < At(trace, "acquire_global_lock")
                  /\ \A i \in DOMAIN trace :
                       trace[i] \in {"cache_add", "callback"} =>
                         At(trace, "acquire_global_lock") < i
                  /\ lock_held_after(trace, TRUE)
             ELSE /\ Count(trace, "release_global_lock") = 0
                  /\ Count(trace, "acquire_global_lock") = 0

\* A failed lookup on the main thread through DnsManager.
C16_Witness ==
  /\ last.op = "resolve" /\ last.is_current /\ last.error_code = -3
  /\ last.trace = <<"release_global_lock", "getaddrinfo", "acquire_global_lock",
                    "cache_add", "callback">>

\* A lookup on another thread through the hook of ConnectionManager.
C16_WitnessOtherThread ==
  /\ last.op = "slot_resolver" /\ ~last.is_current /\ ~last.custom
  /\ last.trace = <<"getaddrinfo", "callback">>

----------------------------------------------------------------------------
(* Overlapping resolves: the main thread waits in its system lookup with   *)
(* the global lock released while other threads resolve, the same key      *)
(* included, and the cache may be cleared.                                 *)

NextOverlap ==
  \/ \E key \in HostKeys : ResolveBegin(key)
  \/ \E key \in HostKeys : \E ai \in GetAddrInfo(key) : ResolveEnd(key, ai)
  \/ \E key \in HostKeys : \E ai \in GetAddrInfo(key) :
       Resolve(key, FALSE, ai, AnyResponse, 0)
  \/ CacheClear

SpecOverlap == InitDns /\ [][NextOverlap]_vars

\* C26: when the main thread's resolve of a key finishes after another
\* thread resolved the same key during its lookup, the pair its callback
\* receives is the pair of one resolution: the one the cache holds or the
\* one its own lookup gave.
C26_Original ==
  (last.op = "resolve" /\ last.overlapped /\ last.callbacks = 1) =>
    Value(last.sa, last.error_code) \in {m_cache[last.key], last.lookup}

\* The other thread's lookup failed with -2 and was cached; the main
\* thread's own lookup succeeded: its callback receives (null, 0).
C26_Witness ==
  /\ last.op = "resolve" /\ last.overlapped /\ last.callbacks = 1
  /\ m_cache[last.key] = Value(Null, -2)
  /\ last.lookup = Value(SockAddr("AF_INET", 1, 0), 0)
  /\ last.sa = Null /\ last.error_code = 0

====
